---------------------------- MODULE Spec2Model ----------------------------
(***************************************************************************)
(* Model of the workflow-editor workspace:                                 *)
(*   - the two generic canvases (CanvaworkComponent, CanvaspaceComponent): *)
(*     viewport (scale, offsetX, offsetY), shapes, hit test, gestures;     *)
(*   - the arrow routing of WorkstatusComponent (calculateArrowPath);      *)
(*   - the workflow canvas (WorkstatusComponent) with its service          *)
(*     (WorkflowserviceService) and the stores the service talks to;       *)
(*   - loading of a persisted canvas state (autoFixCanvasState).           *)
(* JavaScript numbers are modelled as exact rationals [n, d] in lowest     *)
(* terms (d > 0); integers are the rationals with d = 1.                   *)
(***************************************************************************)
EXTENDS Integers, Sequences, FiniteSets, TLC

VARIABLES cv, rt, st, ld, ws, ev

vars == <<cv, rt, st, ld, ws, ev>>

NULL == 0

\* ev is the event handled last: the handler's name and, for pointer events,
\* the pointer's screen position
Ev(op, x, y) == [op |-> op, x |-> x, y |-> y]

\* values of the variables of a component that is not part of a run
NoCanvas == [component |-> "none"]
NoRoute == [routed |-> FALSE]
NoStore == [version |-> "none"]
NoLoad == [loads |-> 0]
NoWork == [version |-> "none"]

(***************************************************************************)
(* Bounds of the model.                                                    *)
(***************************************************************************)
MaxEvents == 3
MaxNum == 100000
MaxDen == 10000
MaxObjects == 5
MaxCoord == 800
MaxCoordDen == 12

(***************************************************************************)
(* Number arithmetic (exact rationals).                                    *)
(***************************************************************************)
Abs(i) == IF i < 0 THEN -i ELSE i

RECURSIVE GCD(_, _)
GCD(a, b) == IF b = 0 THEN a ELSE GCD(b, a % b)

Rat(num, den) ==
  LET s == IF den < 0 THEN -1 ELSE 1
      g == GCD(Abs(num), Abs(den))
  IN  [n |-> (s * num) \div g, d |-> (s * den) \div g]

R(i) == [n |-> i, d |-> 1]

\* sums and comparisons go through the least common denominator and products
\* cancel before multiplying, which keeps the intermediate integers small
RAdd(a, b) ==
  IF a.d = 1 /\ b.d = 1 THEN [n |-> a.n + b.n, d |-> 1]
  ELSE LET g == GCD(a.d, b.d)
       IN  Rat(a.n * (b.d \div g) + b.n * (a.d \div g), (a.d \div g) * b.d)
RNeg(a) == [n |-> -a.n, d |-> a.d]
RSub(a, b) == RAdd(a, RNeg(b))
RMul(a, b) ==
  IF a.d = 1 /\ b.d = 1 THEN [n |-> a.n * b.n, d |-> 1]
  ELSE LET g1 == GCD(Abs(a.n), b.d)
           g2 == GCD(Abs(b.n), a.d)
       IN  Rat((a.n \div g1) * (b.n \div g2), (a.d \div g2) * (b.d \div g1))
RDiv(a, b) == RMul(a, Rat(b.d, b.n))
RLe(a, b) ==
  IF a.d = b.d THEN a.n <= b.n
  ELSE LET g == GCD(a.d, b.d)
       IN  a.n * (b.d \div g) <= b.n * (a.d \div g)
RLt(a, b) == ~RLe(b, a)
RMin(a, b) == IF RLe(a, b) THEN a ELSE b
RMax(a, b) == IF RLe(a, b) THEN b ELSE a

\* numbers the model can hold without leaving TLC's integers: viewport
\* values, and shape coordinates (which the circle test squares)
Small(a) == Abs(a.n) <= MaxNum /\ a.d <= MaxDen
SmallCoord(x, y) ==
  /\ Abs(x.n) <= MaxCoord * x.d /\ Abs(y.n) <= MaxCoord * y.d
  /\ (x.d \div GCD(x.d, y.d)) * y.d <= MaxCoordDen

(***************************************************************************)
(* Generic canvases: constants of the two components.                      *)
(***************************************************************************)
Components == {"canvawork", "canvaspace"}

minScale(c) == Rat(1, 10)
maxScale(c) == IF c = "canvawork" THEN R(10) ELSE R(5)
zoomIntensity == Rat(1, 10)

\* size of the canvas element (canvas.width, canvas.height)
CanvasWidth == 800
CanvasHeight == 600

\* pointer positions of wheel events (screen space) and wheel deltas
WheelPoints == {<<0, 0>>, <<200, 100>>}
WheelDeltas == {-100, 100}

\* world points the pointer is placed over in press and move events
WorldPoints == {<<150, 150>>, <<320, 170>>, <<20, 20>>}

\* the clock readings Date.now() can return
ClockStart == 10
MaxClock == 12

Obj(ref, id, type, x, y, w, h, r) ==
  [ref |-> ref, id |-> id, type |-> type, x |-> R(x), y |-> R(y),
   width |-> R(w), height |-> R(h), radius |-> R(r)]

\* CanvaworkComponent.initializeObjects / CanvaspaceComponent.ngOnInit
InitialObjects(c) ==
  IF c = "canvawork"
  THEN << Obj(1, 1, "rectangle", 100, 100, 100, 100, 0),
          Obj(2, 2, "circle", 300, 150, 0, 0, 50),
          Obj(3, 3, "triangle", 500, 100, 100, 100, 0) >>
  ELSE << Obj(1, 1, "rectangle", 100, 100, 100, 100, 0),
          Obj(2, 2, "circle", 300, 150, 80, 80, 0),
          Obj(3, 3, "text", 150, 300, 150, 50, 0) >>

InitCanvasOf(c, s) ==
  [component |-> c, scale |-> s, offsetX |-> R(0), offsetY |-> R(0),
   objects |-> InitialObjects(c), selectedObject |-> NULL,
   isPanning |-> FALSE, isDraggingObject |-> FALSE,
   lastX |-> R(0), lastY |-> R(0), dragOffsetX |-> R(0), dragOffsetY |-> R(0),
   nextId |-> 4, allocs |-> 3, now |-> ClockStart, events |-> 0]

\* The viewport starts at the identity; a run may also start from a viewport
\* whose scale is already at one of the clamps, which the component reaches by
\* repeated zooming (1.1^25 > 10, 0.9^22 < 0.1, 1.2^9 > 5).
InitCanvas ==
  /\ \E c \in Components :
       \E s \in {R(1), minScale(c), maxScale(c)} : cv = InitCanvasOf(c, s)
  /\ rt = NoRoute
  /\ st = NoStore
  /\ ld = NoLoad
  /\ ws = NoWork
  /\ ev = Ev("init", R(0), R(0))

(***************************************************************************)
(* Coordinate transform, as both components inline it.                     *)
(***************************************************************************)
toWorld(p, offset, s) == RDiv(RSub(p, offset), s)
toScreen(w, offset, s) == RAdd(RMul(w, s), offset)

(***************************************************************************)
(* Hit test.                                                               *)
(***************************************************************************)
\* containment test of one shape, CanvaworkComponent.getObjectAtPosition
ContainsCanvawork(obj, x, y) ==
  IF obj.type = "rectangle"
  THEN /\ RLe(obj.x, x) /\ RLe(x, RAdd(obj.x, obj.width))
       /\ RLe(obj.y, y) /\ RLe(y, RAdd(obj.y, obj.height))
  ELSE IF obj.type = "circle"
  THEN LET dx == RSub(x, obj.x)
           dy == RSub(y, obj.y)
       IN  RLe(RAdd(RMul(dx, dx), RMul(dy, dy)), RMul(obj.radius, obj.radius))
  ELSE IF obj.type = "triangle"
  THEN LET width == IF obj.width.n = 0 THEN R(100) ELSE obj.width
           height == IF obj.height.n = 0 THEN R(100) ELSE obj.height
           half == RDiv(width, R(2))
       IN  /\ RLe(RSub(obj.x, half), x) /\ RLe(x, RAdd(obj.x, half))
           /\ RLe(obj.y, y) /\ RLe(y, RAdd(obj.y, height))
  ELSE FALSE

\* containment test of one shape, CanvaspaceComponent.getObjectAtPosition
ContainsCanvaspace(obj, x, y) ==
  IF obj.type = "rectangle"
  THEN /\ RLe(obj.x, x) /\ RLe(x, RAdd(obj.x, obj.width))
       /\ RLe(obj.y, y) /\ RLe(y, RAdd(obj.y, obj.height))
  ELSE IF obj.type = "circle"
  THEN LET centerX == RAdd(obj.x, RDiv(obj.width, R(2)))
           centerY == RAdd(obj.y, RDiv(obj.height, R(2)))
           radius == RDiv(obj.width, R(2))
           dx == RSub(x, centerX)
           dy == RSub(y, centerY)
       IN  RLe(RAdd(RMul(dx, dx), RMul(dy, dy)), RMul(radius, radius))
  ELSE IF obj.type = "text"
  THEN /\ RLe(obj.x, x) /\ RLe(x, RAdd(obj.x, obj.width))
       /\ RLe(obj.y, y) /\ RLe(y, RAdd(obj.y, obj.height))
  ELSE FALSE

Contains(c, obj, x, y) ==
  IF c = "canvawork" THEN ContainsCanvawork(obj, x, y)
  ELSE ContainsCanvaspace(obj, x, y)

\* mutant: the list is scanned from the bottom, the first-added match wins
RECURSIVE HitFromBottomUp(_, _, _, _, _)
HitFromBottomUp(c, objs, i, x, y) ==
  IF i = 0 THEN NULL
  ELSE LET below == HitFromBottomUp(c, objs, i - 1, x, y)
       IN  IF below # NULL THEN below
           ELSE IF Contains(c, objs[i], x, y) THEN objs[i].ref ELSE NULL

\* the loop  for (let i = objects.length - 1; i >= 0; i--)  from index i down
RECURSIVE HitFrom(_, _, _, _, _)
HitFrom(c, objs, i, x, y) ==
  IF i = 0 THEN NULL
  ELSE IF Contains(c, objs[i], x, y) THEN objs[i].ref
  ELSE HitFrom(c, objs, i - 1, x, y)

getObjectAtPosition(c, objs, x, y) == HitFrom(c, objs, Len(objs), x, y)

\* the shape a reference points to (selectedObject.x, selectedObject.y)
Deref(objs, ref) == objs[CHOOSE i \in DOMAIN objs : objs[i].ref = ref]

\* assignment to selectedObject.x / selectedObject.y: the shape is shared
\* between the reference and the object list
MoveShape(objs, ref, x, y) ==
  [i \in DOMAIN objs |->
     IF objs[i].ref = ref THEN [objs[i] EXCEPT !.x = x, !.y = y] ELSE objs[i]]

(***************************************************************************)
(* Generic canvases: handlers.  Every handler is one UI event.             *)
(***************************************************************************)
\* the state of the other components, which no canvas handler touches
notCanvas == <<rt, st, ld, ws>>

IsCanvas(c) ==
  cv.component = c /\ cv.events < MaxEvents /\ UNCHANGED notCanvas

\* mutant: the sign of the world term is wrong
ZoomOffsetWrongSign(mouse, world, s) == RAdd(mouse, RMul(world, s))

\* the offset that puts world coordinate world back under screen coordinate
\* mouse at scale s:  this.offsetX = mouseX - worldX * this.scale
ZoomOffset(mouse, world, s) == RSub(mouse, RMul(world, s))

\* mutant: the upper clamp (Math.min) is missing
CanvaworkWheelScaleNoMax(s, deltaY) ==
  LET delta == -deltaY
      zoomFactor == IF delta > 0 THEN RAdd(R(1), zoomIntensity)
                    ELSE RSub(R(1), zoomIntensity)
  IN  RMax(minScale("canvawork"), RMul(s, zoomFactor))

\* the new scale of a wheel step, CanvaworkComponent.onWheel
CanvaworkWheelScale(s, deltaY) ==
  LET delta == -deltaY
      zoomFactor == IF delta > 0 THEN RAdd(R(1), zoomIntensity)
                    ELSE RSub(R(1), zoomIntensity)
      newScale == RMul(s, zoomFactor)
  IN  RMax(minScale("canvawork"), RMin(maxScale("canvawork"), newScale))

CanvaworkOnWheel ==
  /\ IsCanvas("canvawork")
  /\ \E p \in WheelPoints, deltaY \in WheelDeltas :
       LET mouseX == R(p[1])
           mouseY == R(p[2])
           worldX == RDiv(RSub(mouseX, cv.offsetX), cv.scale)
           worldY == RDiv(RSub(mouseY, cv.offsetY), cv.scale)
           scale1 == CanvaworkWheelScale(cv.scale, deltaY)
           offX == ZoomOffset(mouseX, worldX, scale1)
           offY == ZoomOffset(mouseY, worldY, scale1)
       IN  /\ Small(scale1) /\ Small(offX) /\ Small(offY)
           /\ ev' = Ev("onWheel", mouseX, mouseY)
           /\ cv' = [cv EXCEPT !.scale = scale1, !.offsetX = offX,
                               !.offsetY = offY, !.events = @ + 1]

\* the new scale of a wheel step, CanvaspaceComponent.onMouseWheel
CanvaspaceWheelScale(s, deltaY) ==
  LET zoomFactor == IF deltaY > 0 THEN Rat(9, 10) ELSE Rat(11, 10)
  IN  RMax(Rat(1, 10), RMin(R(5), RMul(s, zoomFactor)))

CanvaspaceOnMouseWheel ==
  /\ IsCanvas("canvaspace")
  /\ \E p \in WheelPoints, deltaY \in WheelDeltas :
       LET mouseX == R(p[1])
           mouseY == R(p[2])
           worldX == RDiv(RSub(mouseX, cv.offsetX), cv.scale)
           worldY == RDiv(RSub(mouseY, cv.offsetY), cv.scale)
           newScale == CanvaspaceWheelScale(cv.scale, deltaY)
           offX == ZoomOffset(mouseX, worldX, newScale)
           offY == ZoomOffset(mouseY, worldY, newScale)
       IN  /\ Small(newScale) /\ Small(offX) /\ Small(offY)
           /\ ev' = Ev("onWheel", mouseX, mouseY)
           /\ cv' = [cv EXCEPT !.scale = newScale, !.offsetX = offX,
                               !.offsetY = offY, !.events = @ + 1]

\* CanvaworkComponent.zoomIn / zoomOut: anchored at the canvas centre
CanvaworkZoomInScale(s) == RMin(maxScale("canvawork"), RMul(s, Rat(6, 5)))
CanvaworkZoomOutScale(s) == RMax(minScale("canvawork"), RDiv(s, Rat(6, 5)))

CanvaworkZoomTo(scale1, op) ==
  LET centerX == RDiv(R(CanvasWidth), R(2))
      centerY == RDiv(R(CanvasHeight), R(2))
      worldX == RDiv(RSub(centerX, cv.offsetX), cv.scale)
      worldY == RDiv(RSub(centerY, cv.offsetY), cv.scale)
      offX == ZoomOffset(centerX, worldX, scale1)
      offY == ZoomOffset(centerY, worldY, scale1)
  IN  /\ Small(scale1) /\ Small(offX) /\ Small(offY)
      /\ cv' = [cv EXCEPT !.scale = scale1, !.offsetX = offX,
                          !.offsetY = offY, !.events = @ + 1]
      /\ ev' = Ev(op, R(0), R(0))

CanvaworkZoomIn ==
  /\ IsCanvas("canvawork")
  /\ CanvaworkZoomTo(CanvaworkZoomInScale(cv.scale), "zoomIn")

CanvaworkZoomOut ==
  /\ IsCanvas("canvawork")
  /\ CanvaworkZoomTo(CanvaworkZoomOutScale(cv.scale), "zoomOut")

\* CanvaspaceComponent.zoomIn / zoomOut: only the scale is assigned
CanvaspaceZoomInScale(s) == RMin(R(5), RMul(s, Rat(6, 5)))
CanvaspaceZoomOutScale(s) == RMax(Rat(1, 10), RDiv(s, Rat(6, 5)))

CanvaspaceZoomIn ==
  /\ IsCanvas("canvaspace")
  /\ Small(CanvaspaceZoomInScale(cv.scale))
  /\ cv' = [cv EXCEPT !.scale = CanvaspaceZoomInScale(cv.scale),
                      !.events = @ + 1]
  /\ ev' = Ev("zoomIn", R(0), R(0))

CanvaspaceZoomOut ==
  /\ IsCanvas("canvaspace")
  /\ Small(CanvaspaceZoomOutScale(cv.scale))
  /\ cv' = [cv EXCEPT !.scale = CanvaspaceZoomOutScale(cv.scale),
                      !.events = @ + 1]
  /\ ev' = Ev("zoomOut", R(0), R(0))

\* CanvaworkComponent.resetView / CanvaspaceComponent.resetZoom
ResetView ==
  /\ IsCanvas(cv.component)
  /\ cv' = [cv EXCEPT !.scale = R(1), !.offsetX = R(0), !.offsetY = R(0),
                      !.events = @ + 1]
  /\ ev' = Ev("resetView", R(0), R(0))

\* The pointer of a press or move event is given by the world point it is
\* over; the event carries the screen point of that world point.
MouseX(w) == toScreen(R(w[1]), cv.offsetX, cv.scale)
MouseY(w) == toScreen(R(w[2]), cv.offsetY, cv.scale)

CanvaworkOnMouseDown ==
  /\ IsCanvas("canvawork")
  /\ \E w \in WorldPoints :
       LET mouseX == MouseX(w)
           mouseY == MouseY(w)
           worldX == RDiv(RSub(mouseX, cv.offsetX), cv.scale)
           worldY == RDiv(RSub(mouseY, cv.offsetY), cv.scale)
           hit == getObjectAtPosition("canvawork", cv.objects, worldX, worldY)
       IN  /\ Small(mouseX) /\ Small(mouseY)
           /\ ev' = Ev("onMouseDown", mouseX, mouseY)
           /\ IF hit # NULL
              THEN cv' = [cv EXCEPT
                     !.selectedObject = hit,
                     !.isDraggingObject = TRUE,
                     !.dragOffsetX = RSub(worldX, Deref(cv.objects, hit).x),
                     !.dragOffsetY = RSub(worldY, Deref(cv.objects, hit).y),
                     !.lastX = mouseX, !.lastY = mouseY, !.events = @ + 1]
              ELSE cv' = [cv EXCEPT
                     !.selectedObject = NULL,
                     !.isPanning = TRUE,
                     !.lastX = mouseX, !.lastY = mouseY, !.events = @ + 1]

CanvaworkOnMouseMove ==
  /\ IsCanvas("canvawork")
  /\ \E w \in WorldPoints :
       LET mouseX == MouseX(w)
           mouseY == MouseY(w)
           worldX == RDiv(RSub(mouseX, cv.offsetX), cv.scale)
           worldY == RDiv(RSub(mouseY, cv.offsetY), cv.scale)
       IN  /\ Small(mouseX) /\ Small(mouseY)
           /\ ev' = Ev("onMouseMove", mouseX, mouseY)
           /\ IF cv.isDraggingObject /\ cv.selectedObject # NULL
              THEN LET x == RSub(worldX, cv.dragOffsetX)
                       y == RSub(worldY, cv.dragOffsetY)
                   IN  /\ SmallCoord(x, y)
                       /\ cv' = [cv EXCEPT
                            !.objects = MoveShape(@, cv.selectedObject, x, y),
                            !.events = @ + 1]
              ELSE IF cv.isPanning
              THEN LET offX == RAdd(cv.offsetX, RSub(mouseX, cv.lastX))
                       offY == RAdd(cv.offsetY, RSub(mouseY, cv.lastY))
                   IN  /\ Small(offX) /\ Small(offY)
                       /\ cv' = [cv EXCEPT !.offsetX = offX, !.offsetY = offY,
                                           !.lastX = mouseX, !.lastY = mouseY,
                                           !.events = @ + 1]
              ELSE cv' = [cv EXCEPT !.events = @ + 1]

\* CanvaworkComponent.onMouseUp and onMouseLeave have the same body
CanvaworkRelease(op) ==
  /\ IsCanvas("canvawork")
  /\ cv' = [cv EXCEPT !.isDraggingObject = FALSE, !.isPanning = FALSE,
                      !.selectedObject = NULL, !.events = @ + 1]
  /\ ev' = Ev(op, R(0), R(0))

CanvaworkOnMouseUp == CanvaworkRelease("onMouseUp")
CanvaworkOnMouseLeave == CanvaworkRelease("onMouseLeave")

\* CanvaspaceComponent: isDragging is the panning flag, isMovingObject the
\* object-dragging flag, dragStartX/Y the drag offset
CanvaspaceOnMouseDown ==
  /\ IsCanvas("canvaspace")
  /\ \E w \in WorldPoints :
       LET mouseX == MouseX(w)
           mouseY == MouseY(w)
           worldX == RDiv(RSub(mouseX, cv.offsetX), cv.scale)
           worldY == RDiv(RSub(mouseY, cv.offsetY), cv.scale)
           clickedObject ==
             getObjectAtPosition("canvaspace", cv.objects, worldX, worldY)
       IN  /\ Small(mouseX) /\ Small(mouseY)
           /\ ev' = Ev("onMouseDown", mouseX, mouseY)
           /\ IF clickedObject # NULL
              THEN cv' = [cv EXCEPT
                     !.selectedObject = clickedObject,
                     !.isDraggingObject = TRUE,
                     !.dragOffsetX =
                        RSub(worldX, Deref(cv.objects, clickedObject).x),
                     !.dragOffsetY =
                        RSub(worldY, Deref(cv.objects, clickedObject).y),
                     !.lastX = mouseX, !.lastY = mouseY, !.events = @ + 1]
              ELSE cv' = [cv EXCEPT
                     !.isPanning = TRUE,
                     !.dragOffsetX = RSub(mouseX, cv.offsetX),
                     !.dragOffsetY = RSub(mouseY, cv.offsetY),
                     !.lastX = mouseX, !.lastY = mouseY, !.events = @ + 1]

CanvaspaceOnMouseMove ==
  /\ IsCanvas("canvaspace")
  /\ \E w \in WorldPoints :
       LET mouseX == MouseX(w)
           mouseY == MouseY(w)
           worldX == RDiv(RSub(mouseX, cv.offsetX), cv.scale)
           worldY == RDiv(RSub(mouseY, cv.offsetY), cv.scale)
       IN  /\ Small(mouseX) /\ Small(mouseY)
           /\ ev' = Ev("onMouseMove", mouseX, mouseY)
           /\ IF cv.isDraggingObject /\ cv.selectedObject # NULL
              THEN LET x == RSub(worldX, cv.dragOffsetX)
                       y == RSub(worldY, cv.dragOffsetY)
                   IN  /\ SmallCoord(x, y)
                       /\ cv' = [cv EXCEPT
                            !.objects = MoveShape(@, cv.selectedObject, x, y),
                            !.lastX = mouseX, !.lastY = mouseY,
                            !.events = @ + 1]
              ELSE IF cv.isPanning
              THEN LET offX == RSub(mouseX, cv.dragOffsetX)
                       offY == RSub(mouseY, cv.dragOffsetY)
                   IN  /\ Small(offX) /\ Small(offY)
                       /\ cv' = [cv EXCEPT !.offsetX = offX, !.offsetY = offY,
                                           !.lastX = mouseX, !.lastY = mouseY,
                                           !.events = @ + 1]
              ELSE cv' = [cv EXCEPT !.lastX = mouseX, !.lastY = mouseY,
                                    !.events = @ + 1]

CanvaspaceOnMouseUp ==
  /\ IsCanvas("canvaspace")
  /\ cv' = [cv EXCEPT !.isPanning = FALSE, !.isDraggingObject = FALSE,
                      !.events = @ + 1]
  /\ ev' = Ev("onMouseUp", R(0), R(0))

(***************************************************************************)
(* Generic canvases: adding and deleting shapes.                           *)
(***************************************************************************)
\* CanvaworkComponent.addRectangle / addCircle / addTriangle
CanvaworkAdd(type, x, y, w, h, r) ==
  /\ IsCanvas("canvawork") /\ Len(cv.objects) < MaxObjects
  /\ cv' = [cv EXCEPT
       !.objects = Append(@, Obj(cv.allocs + 1, cv.nextId, type, x, y, w, h, r)),
       !.nextId = @ + 1, !.allocs = @ + 1, !.events = @ + 1]
  /\ ev' = Ev("add", R(0), R(0))

CanvaworkAddRectangle == CanvaworkAdd("rectangle", 100, 100, 100, 100, 0)
CanvaworkAddCircle == CanvaworkAdd("circle", 150, 150, 0, 0, 50)
CanvaworkAddTriangle == CanvaworkAdd("triangle", 200, 100, 100, 100, 0)

\* CanvaspaceComponent.addRectangle / addCircle: id is Date.now().toString()
CanvaspaceAdd(type) ==
  /\ IsCanvas("canvaspace") /\ Len(cv.objects) < MaxObjects
  /\ LET x == RAdd(RDiv(RNeg(cv.offsetX), cv.scale), R(50))
         y == RAdd(RDiv(RNeg(cv.offsetY), cv.scale), R(50))
         newObj == [ref |-> cv.allocs + 1, id |-> cv.now, type |-> type,
                    x |-> x, y |-> y, width |-> R(100), height |-> R(100),
                    radius |-> R(0)]
     IN  /\ SmallCoord(x, y)
         /\ cv' = [cv EXCEPT !.objects = Append(@, newObj),
                             !.allocs = @ + 1, !.events = @ + 1]
  /\ ev' = Ev("add", R(0), R(0))

CanvaspaceAddRectangle == CanvaspaceAdd("rectangle")
CanvaspaceAddCircle == CanvaspaceAdd("circle")

\* CanvaspaceComponent.deleteSelected: removes every shape with the selected id
CanvaspaceDeleteSelected ==
  /\ IsCanvas("canvaspace")
  /\ cv.selectedObject # NULL
  /\ LET id == Deref(cv.objects, cv.selectedObject).id
     IN  cv' = [cv EXCEPT
           !.objects = SelectSeq(@, LAMBDA obj : obj.id # id),
           !.selectedObject = NULL, !.events = @ + 1]
  /\ ev' = Ev("deleteSelected", R(0), R(0))

\* the wall clock behind Date.now() advances
ClockTick ==
  /\ cv.component = "canvaspace" /\ cv.now < MaxClock
  /\ UNCHANGED notCanvas
  /\ cv' = [cv EXCEPT !.now = @ + 1]
  /\ ev' = Ev("tick", R(0), R(0))

NextCanvas ==
  \/ CanvaworkOnWheel \/ CanvaspaceOnMouseWheel
  \/ CanvaworkZoomIn \/ CanvaworkZoomOut
  \/ CanvaspaceZoomIn \/ CanvaspaceZoomOut
  \/ ResetView
  \/ CanvaworkOnMouseDown \/ CanvaworkOnMouseMove
  \/ CanvaworkOnMouseUp \/ CanvaworkOnMouseLeave
  \/ CanvaspaceOnMouseDown \/ CanvaspaceOnMouseMove \/ CanvaspaceOnMouseUp
  \/ CanvaworkAddRectangle \/ CanvaworkAddCircle \/ CanvaworkAddTriangle
  \/ CanvaspaceAddRectangle \/ CanvaspaceAddCircle
  \/ CanvaspaceDeleteSelected
  \/ ClockTick

SpecCanvas == InitCanvas /\ [][NextCanvas]_vars


(***************************************************************************)
(* Properties of the generic canvases (checked under SpecCanvas).          *)
(***************************************************************************)
\* C1: in both generic canvases the scale stays within [minScale, maxScale]
\* (0.1..10 in canvawork, 0.1..5 in canvaspace) after any sequence of
\* wheel-zoom, zoom-in, zoom-out, pan and reset operations, and is never zero.
C1_ScaleClamp ==
  /\ RLe(minScale(cv.component), cv.scale)
  /\ RLe(cv.scale, maxScale(cv.component))
  /\ cv.scale.n # 0

\* a zoom step has just run into a clamp: with factors 1.1 and 1.2 the scale
\* is exactly maxScale only after Math.min has cut it, and with factors 0.9
\* and 1/1.2 exactly minScale only after Math.max has raised it
C1_Witness ==
  \/ ev.op \in {"onWheel", "zoomIn"} /\ cv.scale = maxScale(cv.component)
  \/ ev.op \in {"onWheel", "zoomOut"} /\ cv.scale = minScale(cv.component)

\* C2: a wheel-zoom step keeps the world point under the cursor P fixed:
\* toWorld(P, before) = toWorld(P, after), also when the new scale is clamped.
C2_ZoomAnchor ==
  [][ev'.op = "onWheel" =>
       /\ toWorld(ev'.x, cv'.offsetX, cv'.scale)
            = toWorld(ev'.x, cv.offsetX, cv.scale)
       /\ toWorld(ev'.y, cv'.offsetY, cv'.scale)
            = toWorld(ev'.y, cv.offsetY, cv.scale)]_vars

\* a wheel step away from the origin that ended at a clamp with the viewport
\* shifted
C2_Witness ==
  /\ ev.op = "onWheel" /\ ev.x # R(0)
  /\ cv.scale \in {minScale(cv.component), maxScale(cv.component)}
  /\ cv.offsetX # R(0) /\ cv.offsetY # R(0)

\* the centre of the canvas element, in screen space
CenterX == RDiv(R(CanvasWidth), R(2))
CenterY == RDiv(R(CanvasHeight), R(2))

\* C12: the zoom-in and zoom-out controls keep the world point under the
\* centre of the canvas fixed: it is the same before and after zoomIn() or
\* zoomOut(), also when the scale is clamped.
C12_ZoomCenterAnchor ==
  [][ev'.op \in {"zoomIn", "zoomOut"} =>
       /\ toWorld(CenterX, cv'.offsetX, cv'.scale)
            = toWorld(CenterX, cv.offsetX, cv.scale)
       /\ toWorld(CenterY, cv'.offsetY, cv'.scale)
            = toWorld(CenterY, cv.offsetY, cv.scale)]_vars

\* world points at which the hit test is probed
ProbeXs == {20, 150, 320, 500}
ProbeYs == {20, 150, 170}

\* indices of the shapes that contain the point
Containing(x, y) ==
  {i \in DOMAIN cv.objects : Contains(cv.component, cv.objects[i], x, y)}

MaxOf(S) == CHOOSE i \in S : \A j \in S : j <= i

\* C8: at a point contained in one or more shapes the hit test returns the
\* shape added last (highest index in the object list) among those containing
\* the point, and it returns null iff no shape contains the point.
C8_TopmostWins ==
  \A px \in ProbeXs, py \in ProbeYs :
    LET hit == getObjectAtPosition(cv.component, cv.objects, R(px), R(py))
        S == Containing(R(px), R(py))
    IN  /\ (hit = NULL) <=> (S = {})
        /\ S # {} => hit = cv.objects[MaxOf(S)].ref

\* a press on a point that two shapes contain selected the later-added one
C8_Witness ==
  /\ ev.op = "onMouseDown"
  /\ LET wx == toWorld(ev.x, cv.offsetX, cv.scale)
         wy == toWorld(ev.y, cv.offsetY, cv.scale)
         S == Containing(wx, wy)
     IN  /\ Cardinality(S) >= 2
         /\ cv.selectedObject = cv.objects[MaxOf(S)].ref

\* the radius of a circle: its radius field, or half its width where the
\* shape is sized by width and height
RadiusOf(obj) == IF obj.radius.n # 0 THEN obj.radius ELSE RDiv(obj.width, R(2))

\* the containment predicate of each shape type as specified
SpecifiedContains(obj, x, y) ==
  CASE obj.type \in {"rectangle", "text"} ->
         /\ RLe(obj.x, x) /\ RLe(x, RAdd(obj.x, obj.width))
         /\ RLe(obj.y, y) /\ RLe(y, RAdd(obj.y, obj.height))
    [] obj.type = "circle" ->
         LET dx == RSub(x, obj.x)
             dy == RSub(y, obj.y)
         IN  RLe(RAdd(RMul(dx, dx), RMul(dy, dy)),
                 RMul(RadiusOf(obj), RadiusOf(obj)))
    [] obj.type = "triangle" ->
         LET half == RDiv(obj.width, R(2))
         IN  /\ RLe(RSub(obj.x, half), x) /\ RLe(x, RAdd(obj.x, half))
             /\ RLe(obj.y, y) /\ RLe(y, RAdd(obj.y, obj.height))
    [] OTHER -> FALSE

\* C13: for every shape of the object list and every point, the hit test's
\* containment test of the shape's type is the specified one: the box
\* [x, x+width] x [y, y+height] for a rectangle and a text, Euclidean distance
\* from the anchor (x, y) at most the radius for a circle, and the bounding
\* box [x-width/2, x+width/2] x [y, y+height] for a triangle.
C13_ContainmentAsSpecified ==
  \A i \in DOMAIN cv.objects :
    \A px \in ProbeXs, py \in ProbeYs :
       Contains(cv.component, cv.objects[i], R(px), R(py))
         <=> SpecifiedContains(cv.objects[i], R(px), R(py))

\* C15: after any sequence of add-shape and delete operations, with the clock
\* advancing by any amount (none included) between them, no two shapes of the
\* object list share an id, and deleteSelected removes exactly the selected
\* shape and no other.
C15_ShapeIdsUnique ==
  [][/\ \A i, j \in DOMAIN cv'.objects :
          i # j => cv'.objects[i].id # cv'.objects[j].id
     /\ ev'.op = "deleteSelected" =>
          cv'.objects = SelectSeq(cv.objects,
                                  LAMBDA obj : obj.ref # cv.selectedObject)]_vars

(***************************************************************************)
(* Arrow routing (WorkstatusComponent.calculateArrowPath).                 *)
(* Node positions are integers.  A path is the record of everything the    *)
(* path string `M start C cp1 cp2 end` is built from: the two end points,  *)
(* the two directions and the control distance d, held as 25*d^2 because   *)
(* d = 0.4 * sqrt(dx^2 + dy^2) is irrational in general.                   *)
(***************************************************************************)
boxW == 140
boxH == 64
arrowOffset == 3

Pos(x, y) == [x |-> x, y |-> y]

\* the control distance without its lower limit
ControlDistanceSq25NoMin(distanceSq) ==
  IF 4 * distanceSq <= 25 * 150 * 150 THEN 4 * distanceSq
  ELSE 25 * 150 * 150

\* Math.max(Math.min(distance * 0.4, 150), 40), as 25 * (that value)^2:
\* 25 * (0.4 * distance)^2 = 4 * distance^2
ControlDistanceSq25(distanceSq) ==
  LET controlDistance == IF 4 * distanceSq <= 25 * 150 * 150
                         THEN 4 * distanceSq ELSE 25 * 150 * 150
      minControlDist == 25 * 40 * 40
  IN  IF controlDistance >= minControlDist THEN controlDistance
      ELSE minControlDist

\* the switch on a direction: the point (x, y) moved by actualControlDistance,
\* held as the point and the unit step (alongX, alongY) it is moved along
ControlPoint(x, y, direction) ==
  [x |-> x, y |-> y,
   alongX |-> IF direction = "right" THEN 1
              ELSE IF direction = "left" THEN -1 ELSE 0,
   alongY |-> IF direction = "down" THEN 1
              ELSE IF direction = "up" THEN -1 ELSE 0]

createSmoothBezierPath(startX, startY, startDirection, endX, endY, endDirection, distanceSq) ==
  [startX |-> startX, startY |-> startY, startDirection |-> startDirection,
   endX |-> endX, endY |-> endY, endDirection |-> endDirection,
   controlSq25 |-> ControlDistanceSq25(distanceSq),
   cp1 |-> ControlPoint(startX, startY, startDirection),
   cp2 |-> ControlPoint(endX, endY, endDirection)]

\* the test of the first branch never succeeds
ExceedsHalfNever(gap, otherGap) == FALSE

\* gap > otherGap * 0.5, taken times 10
ExceedsHalf(gap, otherGap) == 10 * gap > 5 * otherGap

\* mutant: the threshold of the vertical branches is 0.5 as well
ExceedsThreeTenthsAsHalf(gap, otherGap) == 10 * gap > 5 * otherGap

\* gap > otherGap * 0.3, taken times 10
ExceedsThreeTenths(gap, otherGap) == 10 * gap > 3 * otherGap

\* mutant: the branch for a target on the left is missing, the fallback
\* (exit right, enter left) takes its cases
calculateArrowPathNoLeftBranch(from, to) ==
  LET fromCenterX == from.x + boxW \div 2
      fromCenterY == from.y + boxH \div 2
      toCenterX == to.x + boxW \div 2
      toCenterY == to.y + boxH \div 2
      dx == toCenterX - fromCenterX
      dy == toCenterY - fromCenterY
      distanceSq == dx * dx + dy * dy
      horizontalGap == Abs(dx)
      verticalGap == Abs(dy)
  IN  IF dx > 0 /\ ExceedsHalf(horizontalGap, verticalGap)
      THEN createSmoothBezierPath(from.x + boxW, fromCenterY, "right",
                                  to.x - arrowOffset, toCenterY, "left",
                                  distanceSq)
      ELSE IF dy > 0 /\ ExceedsThreeTenths(verticalGap, horizontalGap)
      THEN createSmoothBezierPath(fromCenterX, from.y + boxH, "down",
                                  toCenterX, to.y - arrowOffset, "up",
                                  distanceSq)
      ELSE IF dy < 0 /\ ExceedsThreeTenths(verticalGap, horizontalGap)
      THEN createSmoothBezierPath(fromCenterX, from.y, "up",
                                  toCenterX, to.y + boxH + arrowOffset, "down",
                                  distanceSq)
      ELSE createSmoothBezierPath(from.x + boxW, fromCenterY, "right",
                                  to.x - arrowOffset, toCenterY, "left",
                                  distanceSq)

calculateArrowPath(from, to) ==
  LET fromCenterX == from.x + boxW \div 2
      fromCenterY == from.y + boxH \div 2
      toCenterX == to.x + boxW \div 2
      toCenterY == to.y + boxH \div 2
      dx == toCenterX - fromCenterX
      dy == toCenterY - fromCenterY
      distanceSq == dx * dx + dy * dy
      horizontalGap == Abs(dx)
      verticalGap == Abs(dy)
  IN  IF dx > 0 /\ ExceedsHalf(horizontalGap, verticalGap)
      THEN createSmoothBezierPath(from.x + boxW, fromCenterY, "right",
                                  to.x - arrowOffset, toCenterY, "left",
                                  distanceSq)
      ELSE IF dy > 0 /\ ExceedsThreeTenths(verticalGap, horizontalGap)
      THEN createSmoothBezierPath(fromCenterX, from.y + boxH, "down",
                                  toCenterX, to.y - arrowOffset, "up",
                                  distanceSq)
      ELSE IF dy < 0 /\ ExceedsThreeTenths(verticalGap, horizontalGap)
      THEN createSmoothBezierPath(fromCenterX, from.y, "up",
                                  toCenterX, to.y + boxH + arrowOffset, "down",
                                  distanceSq)
      ELSE IF dx < 0
      THEN IF Abs(dy) > 30 \/ to.y > from.y
           THEN createSmoothBezierPath(fromCenterX, from.y + boxH, "down",
                                       to.x + boxW + arrowOffset, toCenterY,
                                       "right", distanceSq)
           ELSE createSmoothBezierPath(fromCenterX, from.y, "up",
                                       to.x + boxW + arrowOffset, toCenterY,
                                       "right", distanceSq)
      ELSE createSmoothBezierPath(from.x + boxW, fromCenterY, "right",
                                  to.x - arrowOffset, toCenterY, "left",
                                  distanceSq)

(***************************************************************************)
(* Routing on its own: an arrow between two boxes, routed when it is       *)
(* created and again whenever the target box is moved.                     *)
(***************************************************************************)
RouteFroms == {Pos(0, 0), Pos(100, 40)}
RouteXs == {-300, -200, -100, -40, -20, 0, 20, 40, 100, 200, 300}
RouteYs == {-300, -100, -60, -40, -30, -20, -10, 0, 10, 20, 30, 40, 60, 100, 300}

notRoute == <<cv, st, ld, ws>>

InitRoute ==
  /\ \E f \in RouteFroms : \E x \in RouteXs, y \in RouteYs :
       rt = [from |-> f, to |-> Pos(f.x + x, f.y + y), routed |-> FALSE,
             path |-> NULL]
  /\ cv = NoCanvas
  /\ st = NoStore
  /\ ld = NoLoad
  /\ ws = NoWork
  /\ ev = Ev("init", R(0), R(0))

\* updateAllArrows for the one arrow, after createArrow
RouteArrow ==
  /\ ~rt.routed
  /\ rt' = [rt EXCEPT !.routed = TRUE,
                       !.path = calculateArrowPath(rt.from, rt.to)]
  /\ ev' = Ev("updateAllArrows", R(0), R(0))
  /\ UNCHANGED notRoute

\* the target box is moved and updateAllArrows runs again
RouteMoveTarget ==
  /\ rt.routed
  /\ \E x \in RouteXs, y \in RouteYs :
       LET to == Pos(rt.from.x + x, rt.from.y + y)
       IN  rt' = [rt EXCEPT !.to = to,
                            !.path = calculateArrowPath(rt.from, to)]
  /\ ev' = Ev("onMouseMove", R(0), R(0))
  /\ UNCHANGED notRoute

NextRoute == RouteArrow \/ RouteMoveTarget

SpecRoute == InitRoute /\ [][NextRoute]_vars

\* the shapes that a step has moved
MovedShapes ==
  { i \in 1..Len(cv.objects) :
      /\ i <= Len(cv'.objects)
      /\ cv'.objects[i].ref = cv.objects[i].ref
      /\ <<cv'.objects[i].x, cv'.objects[i].y>>
           # <<cv.objects[i].x, cv.objects[i].y>> }

\* C36: on the generic canvases the panning flag and the object-dragging
\* flag are never both set, whatever pointer-down, move, up and leave events
\* arrived, and a shape is moved only by a pointer move while the
\* object-dragging flag is set and the shape is the one that was pressed.
C36_OneGestureAtATime ==
  [][cv'.component # "none" =>
       /\ ~(cv'.isPanning /\ cv'.isDraggingObject)
       /\ \A i \in MovedShapes :
            /\ ev'.op = "onMouseMove"
            /\ cv.isDraggingObject
            /\ cv.selectedObject = cv.objects[i].ref]_vars

(***************************************************************************)
(* Properties of the routing (checked under SpecRoute).                    *)
(***************************************************************************)
\* centre-to-centre delta of the routed arrow
RtDx == (rt.to.x + boxW \div 2) - (rt.from.x + boxW \div 2)
RtDy == (rt.to.y + boxH \div 2) - (rt.from.y + boxH \div 2)

\* the side of the target box the path ends on, read off the end point
EntrySide(path, to) ==
  IF path.endX = to.x - arrowOffset /\ path.endY = to.y + boxH \div 2
  THEN "left"
  ELSE IF path.endX = to.x + boxW + arrowOffset
          /\ path.endY = to.y + boxH \div 2
  THEN "right"
  ELSE IF path.endY = to.y - arrowOffset /\ path.endX = to.x + boxW \div 2
  THEN "top"
  ELSE IF path.endY = to.y + boxH + arrowOffset
          /\ path.endX = to.x + boxW \div 2
  THEN "bottom"
  ELSE "none"

\* the side of the source box the path starts on, read off the start point
ExitSide(path, from) ==
  IF path.startX = from.x + boxW /\ path.startY = from.y + boxH \div 2
  THEN "right"
  ELSE IF path.startY = from.y + boxH /\ path.startX = from.x + boxW \div 2
  THEN "bottom"
  ELSE IF path.startY = from.y /\ path.startX = from.x + boxW \div 2
  THEN "top"
  ELSE "none"

\* C3: routing never ends an edge on the target's left side when the target's
\* centre is left of the source's centre (dx < 0): the entry side is then top,
\* bottom or right.  Entry on the left occurs only when dx > 0 or the two
\* centres coincide.
C3_NeverEnterLeftFromBehind ==
  rt.routed =>
    /\ RtDx < 0 => EntrySide(rt.path, rt.to) \in {"top", "bottom", "right"}
    /\ EntrySide(rt.path, rt.to) = "left" =>
         (RtDx > 0 \/ (RtDx = 0 /\ RtDy = 0))

\* a target directly left and one lower left, both entered from the right
C3_Witness ==
  /\ rt.routed /\ RtDx < 0
  /\ EntrySide(rt.path, rt.to) = "right"

RightExitCase == rt.routed /\ RtDx > 0 /\ 2 * Abs(RtDx) > Abs(RtDy)

\* C32 as stated: in case (a) the path starts at the source box's
\* right-centre (x + width, y + height/2) and ends at the target box's
\* left-centre (x, y + height/2).
C32_RightExitEndpoints ==
  RightExitCase =>
    /\ rt.path.startX = rt.from.x + boxW
    /\ rt.path.startY = rt.from.y + boxH \div 2
    /\ rt.path.endX = rt.to.x
    /\ rt.path.endY = rt.to.y + boxH \div 2

\* C32 amended: in case (a) the path starts at the source box's right-centre
\* (x + width, y + height/2) and ends arrowOffset to the left of the target
\* box's left-centre, at (x - arrowOffset, y + height/2).
C32_RightExitEndpointsOffset ==
  RightExitCase =>
    /\ rt.path.startX = rt.from.x + boxW
    /\ rt.path.startY = rt.from.y + boxH \div 2
    /\ rt.path.endX = rt.to.x - arrowOffset
    /\ rt.path.endY = rt.to.y + boxH \div 2

\* case (a) with a target that is lower as well: exit right, not bottom
C32_Witness ==
  /\ RightExitCase
  /\ RtDy > 0 /\ 10 * Abs(RtDy) > 3 * Abs(RtDx)
  /\ rt.path.startX = rt.from.x + boxW
  /\ rt.path.endX = rt.to.x - arrowOffset

\* the unit step that points away from the box on one of its sides
Outward(side) ==
  [alongX |-> IF side = "right" THEN 1 ELSE IF side = "left" THEN -1 ELSE 0,
   alongY |-> IF side = "bottom" THEN 1 ELSE IF side = "top" THEN -1 ELSE 0]

\* C33: the control distance d lies in [40, 150] and is 0.4 times the
\* distance of the centres when that value lies in the range (as 25 d^2
\* against 4 distance^2); the first control point is the start point moved
\* by d away from the source box on the exit side, the second control point
\* is the end point moved by d away from the target box on the entry side.
C33_ControlPoints ==
  rt.routed =>
    LET distanceSq == RtDx * RtDx + RtDy * RtDy
        exit == Outward(ExitSide(rt.path, rt.from))
        entry == Outward(EntrySide(rt.path, rt.to))
    IN  /\ 25 * 40 * 40 <= rt.path.controlSq25
        /\ rt.path.controlSq25 <= 25 * 150 * 150
        /\ (25 * 40 * 40 <= 4 * distanceSq /\ 4 * distanceSq <= 25 * 150 * 150)
             => rt.path.controlSq25 = 4 * distanceSq
        /\ rt.path.cp1 = [x |-> rt.path.startX, y |-> rt.path.startY,
                          alongX |-> exit.alongX, alongY |-> exit.alongY]
        /\ rt.path.cp2 = [x |-> rt.path.endX, y |-> rt.path.endY,
                          alongX |-> entry.alongX, alongY |-> entry.alongY]

\* centres closer than 100, so that 0.4 times their distance is below 40,
\* and an entry on the right side of the target
C33_Witness ==
  /\ rt.routed
  /\ 4 * (RtDx * RtDx + RtDy * RtDy) < 25 * 40 * 40
  /\ rt.path.controlSq25 = 25 * 40 * 40
  /\ EntrySide(rt.path, rt.to) = "right"
  /\ rt.path.cp2.alongX = 1

(***************************************************************************)
(* WorkflowserviceService: the stores and the loading of a persisted       *)
(* canvas state.  Two versions of the service exist: "localStorage" keeps  *)
(* the canvas state and the node positions in the browser's localStorage,  *)
(* "http" keeps the canvas state on the JSON server.                       *)
(* st is the store: canvasState (a SavedState or Absent) and positions     *)
(* (workflow id -> position or Absent).  ld is what the last getCanvasState*)
(* read and returned.                                                      *)
(***************************************************************************)
DEFAULT_START_X == 120
DEFAULT_START_Y == 120
SPACE_INCREASE == 300
DEFAULT_HORIZONTAL_SPACING == 200

ServiceVersions == {"localStorage", "http"}

\* null, undefined, a missing field
Absent == [absent |-> TRUE]

HorizontalSpacing(version) ==
  IF version = "localStorage" THEN SPACE_INCREASE
  ELSE DEFAULT_HORIZONTAL_SPACING

isValidPosition(position) == position # Absent

\* positions[workflowId] = position; the "http" version has no position store
savePosition(version, positions, workflowId, position) ==
  IF version = "localStorage"
  THEN [positions EXCEPT ![workflowId] = position]
  ELSE positions

NeedsPositionFix(item) ==
  \/ ~isValidPosition(item.position)
  \/ (item.position.x = 0 /\ item.position.y = 0)

\* the body of state.items.forEach for the item at (0-based) index
FixedItem(version, item, index) ==
  IF NeedsPositionFix(item)
  THEN LET defaultPosition ==
             Pos(DEFAULT_START_X + index * HorizontalSpacing(version),
                 DEFAULT_START_Y)
       IN  [item EXCEPT
              !.position = defaultPosition,
              !.properties = IF item.properties # Absent
                             THEN [item.properties EXCEPT
                                     !.position = defaultPosition]
                             ELSE item.properties]
  ELSE item

FixedItems(version, items) ==
  [i \in 1..Len(items) |-> FixedItem(version, items[i], i - 1)]

\* the position store after the savePosition calls of the forEach
RECURSIVE FixedPositions(_, _, _, _)
FixedPositions(version, positions, items, n) ==
  IF n = 0 THEN positions
  ELSE LET before == FixedPositions(version, positions, items, n - 1)
           item == items[n]
       IN  IF NeedsPositionFix(item) /\ item.workflowId # ""
           THEN savePosition(version, before, item.workflowId,
                             FixedItem(version, item, n - 1).position)
           ELSE before

\* a.properties?.sequence || a.id
SequenceKey(item) ==
  IF item.properties # Absent /\ item.properties.sequence # 0
  THEN item.properties.sequence
  ELSE item.id

\* [...items].sort(by SequenceKey): the sort is stable
RECURSIVE InsertBySequence(_, _)
InsertBySequence(item, sorted) ==
  IF sorted = <<>> THEN <<item>>
  ELSE LET last == sorted[Len(sorted)]
       IN  IF SequenceKey(last) <= SequenceKey(item)
           THEN Append(sorted, item)
           ELSE Append(InsertBySequence(item, SubSeq(sorted, 1, Len(sorted) - 1)),
                       last)

RECURSIVE SortedBySequence(_, _)
SortedBySequence(items, n) ==
  IF n = 0 THEN <<>>
  ELSE InsertBySequence(items[n], SortedBySequence(items, n - 1))

generateSequentialArrows(items) ==
  LET sortedItems == SortedBySequence(items, Len(items))
  IN  [i \in 1..(Len(items) - 1) |->
         [fromId |-> sortedItems[i].id, toId |-> sortedItems[i + 1].id]]

ItemExists(items, id) == \E i \in 1..Len(items) : items[i].id = id

ValidArrows(arrows, items) ==
  LET Valid(arrow) == /\ ItemExists(items, arrow.fromId)
                      /\ ItemExists(items, arrow.toId)
  IN  SelectSeq(arrows, Valid)

\* the fixed state and whether it is saved again
autoFixCanvasState(version, state) ==
  IF state = Absent \/ state.items = <<>>
  THEN [state |-> state, needsAutoFix |-> FALSE]
  ELSE LET fixedItems == FixedItems(version, state.items)
           positionFixed == \E i \in 1..Len(state.items) :
                              NeedsPositionFix(state.items[i])
           validArrows == ValidArrows(state.arrows, fixedItems)
           fixedArrows == IF state.arrows = <<>>
                          THEN generateSequentialArrows(fixedItems)
                          ELSE validArrows
           arrowsFixed == \/ state.arrows = <<>>
                          \/ Len(validArrows) # Len(state.arrows)
       IN  [state |-> [state EXCEPT !.items = fixedItems,
                                    !.arrows = fixedArrows],
            needsAutoFix |-> positionFixed \/ arrowsFixed]

(***************************************************************************)
(* Loading on its own: a persisted state, as another session, an edit of   *)
(* the store or a deletion of nodes elsewhere left it, is loaded.          *)
(***************************************************************************)
MaxLoads == 2

WorkflowIds == {"w1", "w2"}
StoredPositions == {Absent, Pos(0, 0), Pos(40, 60)}

StoredItem(id, position, workflowId, properties) ==
  [id |-> id, type |-> "action1", label |-> "Action 1", position |-> position,
   workflowId |-> workflowId, properties |-> properties]

\* the items a stored state can hold for a node id; with properties the
\* sequence runs against the ids
StoredItemsOf(id) ==
  { StoredItem(id, p, w,
               IF withProperties THEN [sequence |-> 3 - id, position |-> p]
               ELSE Absent) :
      p \in StoredPositions,
      w \in {"", IF id = 1 THEN "w1" ELSE "w2"},
      withProperties \in BOOLEAN }

StoredItemLists ==
  {<<>>}
    \cup { <<a>> : a \in StoredItemsOf(1) \cup StoredItemsOf(2) }
    \cup { <<a, b>> : a \in StoredItemsOf(1), b \in StoredItemsOf(2) }
    \cup { <<b, a>> : a \in StoredItemsOf(1), b \in StoredItemsOf(2) }

StoredArrows ==
  { [fromId |-> f, toId |-> t] : f \in 1..3, t \in 1..3 } \
    { [fromId |-> i, toId |-> i] : i \in 1..3 }

StoredArrowLists ==
  {<<>>} \cup { <<a>> : a \in StoredArrows }
         \cup { <<a, b>> : a \in StoredArrows, b \in StoredArrows }

StoredStates ==
  {Absent} \cup { [items |-> items, arrows |-> arrows, nextId |-> 3] :
                    items \in StoredItemLists, arrows \in StoredArrowLists }

notLoad == <<cv, rt, ws>>

InitLoad ==
  /\ \E version \in ServiceVersions, state \in StoredStates :
       st = [version |-> version, canvasState |-> state,
             positions |-> [w \in WorkflowIds |-> Absent], server |-> <<>>]
  /\ ld = [loads |-> 0, read |-> Absent, returned |-> Absent,
           saved |-> FALSE]
  /\ cv = NoCanvas
  /\ rt = NoRoute
  /\ ws = NoWork
  /\ ev = Ev("init", R(0), R(0))

\* getCanvasState with the saveCanvasState and savePosition calls it makes
\* (ld.saved tells whether it called saveCanvasState)
LoadGetCanvasState ==
  /\ ld.loads < MaxLoads
  /\ LET state == st.canvasState
         fix == autoFixCanvasState(st.version, state)
     IN  /\ ld' = [loads |-> ld.loads + 1, read |-> state,
                   returned |-> fix.state, saved |-> fix.needsAutoFix]
         /\ st' = [st EXCEPT
                     !.canvasState = IF fix.needsAutoFix THEN fix.state ELSE @,
                     !.positions =
                        IF state = Absent \/ state.items = <<>> THEN @
                        ELSE FixedPositions(st.version, @, state.items,
                                            Len(state.items))]
  /\ ev' = Ev("getCanvasState", R(0), R(0))
  /\ UNCHANGED notLoad

\* deleteCanvasState
LoadDeleteCanvasState ==
  /\ ld.loads < MaxLoads
  /\ st.canvasState # Absent
  /\ st' = [st EXCEPT !.canvasState = Absent]
  /\ ev' = Ev("deleteCanvasState", R(0), R(0))
  /\ UNCHANGED ld
  /\ UNCHANGED notLoad

NextLoad == LoadGetCanvasState \/ LoadDeleteCanvasState

SpecLoad == InitLoad /\ [][NextLoad]_vars

(***************************************************************************)
(* Properties of the loading (checked under SpecLoad).                     *)
(***************************************************************************)
IsDangling(arrow, items) ==
  ~ItemExists(items, arrow.fromId) \/ ~ItemExists(items, arrow.toId)

HasDangling(state) ==
  \E i \in 1..Len(state.arrows) : IsDangling(state.arrows[i], state.items)

WithoutDangling(state) ==
  LET Kept(arrow) == ~IsDangling(arrow, state.items)
  IN  SelectSeq(state.arrows, Kept)

\* C6: loading a persisted state whose edge list holds an edge whose fromId or
\* toId matches no item id returns a state in which exactly those edges are
\* removed and nothing else (items, their positions, the remaining edges,
\* nextId) is changed; no returned edge references a missing node id.
C6_DanglingEdgesPruned ==
  (ev.op = "getCanvasState" /\ ld.read # Absent /\ HasDangling(ld.read)) =>
    /\ ld.returned # Absent
    /\ ld.returned.arrows = WithoutDangling(ld.read)
    /\ ld.returned.items = ld.read.items
    /\ ld.returned.nextId = ld.read.nextId
    /\ ~HasDangling(ld.returned)

(***************************************************************************)
(* The workflow canvas: WorkstatusComponent with WorkflowserviceService.   *)
(* The component exists in two versions, each used with the service of     *)
(* the same name: "localStorage" (positions and canvas state in            *)
(* localStorage, grid snapping, drag started by a 200 ms timer) and "http" *)
(* (everything on the JSON server, no snapping, drag started on press).    *)
(*                                                                         *)
(* Objects have identity: a node is a reference (an index) into ws.heap,   *)
(* and items, arrows, draggedItem, linkedButtons, selectedItem,            *)
(* lastCreatedItem and the timers' closures hold references.  A field that *)
(* is missing in the program holds its falsy value here ("" or 0) where    *)
(* the program only reads it through || or a truth test.                   *)
(***************************************************************************)
ACTION2_CHILD_VERTICAL_SPACING == 90
ACTION2_CHILD_HORIZONTAL_OFFSET == 280
AUTO_CREATE_START_X == 120
AUTO_CREATE_START_Y == 120
AUTO_CREATE_VERTICAL_SPACING == 150
PAGE_ID == 80
GridSize == 20

\* a record of the item source (WorkflowProcessItem)
WorkflowProcessItem(id, page_id, sequence, name, returnValue, position) ==
  [id |-> id, page_id |-> page_id, sequence |-> sequence, name |-> name,
   return_input_property_value |-> returnValue, position |-> position,
   lastmodifiedby |-> 0]

\* [...items].sort((a, b) => (a.sequence || 0) - (b.sequence || 0)), stable
RECURSIVE InsertWorkflowItem(_, _)
InsertWorkflowItem(item, sorted) ==
  IF sorted = <<>> THEN <<item>>
  ELSE LET last == sorted[Len(sorted)]
       IN  IF last.sequence <= item.sequence
           THEN Append(sorted, item)
           ELSE Append(InsertWorkflowItem(item,
                                          SubSeq(sorted, 1, Len(sorted) - 1)),
                       last)

RECURSIVE SortedWorkflowItems(_, _)
SortedWorkflowItems(items, n) ==
  IF n = 0 THEN <<>>
  ELSE InsertWorkflowItem(items[n], SortedWorkflowItems(items, n - 1))

sortBySequence(items) == SortedWorkflowItems(items, Len(items))

mergePositionsFromLocalStorage(positions, items) ==
  [i \in 1..Len(items) |->
     IF positions[items[i].id] # Absent
     THEN [items[i] EXCEPT !.position = positions[items[i].id]]
     ELSE items[i]]

getAllWorkflowProcess(store) ==
  IF store.version = "localStorage"
  THEN mergePositionsFromLocalStorage(store.positions, store.server)
  ELSE store.server

getWorkflowProcessByPageId(store, pageId) ==
  LET OnPage(item) == item.page_id = pageId
  IN  SelectSeq(getAllWorkflowProcess(store), OnPage)

UsablePosition(position) ==
  isValidPosition(position) /\ position.x # 0 /\ position.y # 0

\* the position of a rebuilt node and the position store afterwards
calculateAutoPosition(version, positions, workflowItem, index, startX, startY, spacing) ==
  LET storedPosition == positions[workflowItem.id]
      autoPosition == Pos(startX + index * spacing, startY)
  IN  IF version = "localStorage" /\ storedPosition # Absent
         /\ isValidPosition(storedPosition)
      THEN [position |-> storedPosition, positions |-> positions]
      ELSE IF UsablePosition(workflowItem.position)
      THEN [position |-> workflowItem.position,
            positions |-> savePosition(version, positions, workflowItem.id,
                                       workflowItem.position)]
      ELSE [position |-> autoPosition,
            positions |-> savePosition(version, positions, workflowItem.id,
                                       autoPosition)]

createPropertiesFromWorkflow(workflowItem, position) ==
  [sequence |-> workflowItem.sequence, name |-> workflowItem.name,
   lastmodifiedby |-> workflowItem.lastmodifiedby, position |-> position]

generateDefaultProperties(label, position, sequence) ==
  [sequence |-> sequence, name |-> label, lastmodifiedby |-> 0,
   position |-> position]

\* { position } alone: the properties of a rebuilt continue or reject node
PositionOnly(position) ==
  [sequence |-> 0, name |-> "", lastmodifiedby |-> 0, position |-> position]

\* `Action ${sequence}`
ActionLabel(sequence) ==
  CASE sequence = 0 -> "Action 0"
    [] sequence = 1 -> "Action 1"
    [] sequence = 2 -> "Action 2"
    [] OTHER -> "Action 3"

DraggableItem(id, label, position, type, workflowId, properties) ==
  [id |-> id, label |-> label, position |-> position, type |-> type,
   workflowId |-> workflowId, properties |-> properties]

\* the canvas part of the component that rebuild and creation thread through
\* (c.heap, c.items, c.arrows, c.nextId, c.lastCreatedItem)
NewRef(c) == Len(c.heap) + 1

\* mutant: the counter is not advanced
TakeIdsNot(nextId, n) == nextId

\* this.nextId++, n times: the counter after n ids were taken
TakeIds(nextId, n) == nextId + n

\* mutant: every arrow out of an action2 is dashed
IsDottedLineFromOnly(from, to) == from.type = "action2"

IsDottedLine(from, to) ==
  from.type = "action2" /\ (to.type = "continue" \/ to.type = "reject")

createArrow(c, from, to) ==
  [c EXCEPT !.arrows =
     Append(@, [from |-> from, to |-> to, path |-> Absent,
                dashed |-> IsDottedLine(c.heap[from], c.heap[to])])]

updateAllArrows(c) ==
  [c EXCEPT !.arrows =
     [i \in 1..Len(c.arrows) |->
        [c.arrows[i] EXCEPT
           !.path = calculateArrowPath(c.heap[c.arrows[i].from].position,
                                       c.heap[c.arrows[i].to].position)]]]

\* what saveCanvasState serialises
SavedStateOf(c) ==
  [items |-> [i \in 1..Len(c.items) |-> c.heap[c.items[i]]],
   arrows |-> [i \in 1..Len(c.arrows) |->
                 [fromId |-> c.heap[c.arrows[i].from].id,
                  toId |-> c.heap[c.arrows[i].to].id]],
   nextId |-> c.nextId]

ChildHorizontalOffset(version) ==
  IF version = "localStorage" THEN ACTION2_CHILD_HORIZONTAL_OFFSET ELSE 240

ChildVerticalOffset(version) ==
  IF version = "localStorage" THEN ACTION2_CHILD_VERTICAL_SPACING \div 2
  ELSE 70

\* mutant: the rebuild keeps the nodes and arrows that are there
RebuildStartKeepAll(w) == w

\* this.items = []; this.arrows = []; this.lastCreatedItem = null;
\* this.nextId = 1
RebuildStart(w) ==
  [w EXCEPT !.items = <<>>, !.arrows = <<>>, !.lastCreatedItem = NULL,
            !.nextId = 1]

\* mutant: no item is taken to carry a return value
HasReturnValueNever(workflowItem) == FALSE

\* workflowItem['return_input_property_value'] != null && ... !== ''
HasReturnValue(workflowItem) == workflowItem.return_input_property_value # ""

\* mutant: the chain goes on from the action2 node itself
ChainTailIsAction2(action2Item, continueItem) == action2Item

\* this.lastCreatedItem = continueItem: the next item is connected from the
\* continue node, not from the action2 node
ChainTailOfAction2(action2Item, continueItem) == continueItem

\* mutant: the reject node hangs off the continue node
LinkChildrenInARow(c, action2Item, continueItem, rejectItem) ==
  createArrow(createArrow(c, action2Item, continueItem),
              continueItem, rejectItem)

\* this.createArrow(action2Item, continueItem);
\* this.createArrow(action2Item, rejectItem)
LinkChildren(c, action2Item, continueItem, rejectItem) ==
  createArrow(createArrow(c, action2Item, continueItem),
              action2Item, rejectItem)

\* the body of sortedData.forEach: the component and the position store
\* after the item at (0-based) index is processed
AutoCreateItem(w, positions, workflowItem, index) ==
  LET placed ==
        IF w.version = "localStorage"
        THEN calculateAutoPosition(w.version, positions, workflowItem, index,
                                   DEFAULT_START_X, DEFAULT_START_Y,
                                   SPACE_INCREASE)
        ELSE calculateAutoPosition(w.version, positions, workflowItem, index,
                                   AUTO_CREATE_START_X, AUTO_CREATE_START_Y,
                                   AUTO_CREATE_VERTICAL_SPACING)
      position == placed.position
      hasReturnValue == HasReturnValue(workflowItem)
      label == IF workflowItem.name # "" THEN workflowItem.name
               ELSE ActionLabel(workflowItem.sequence)
      properties == createPropertiesFromWorkflow(workflowItem, position)
      primary == NewRef(w)
  IN  IF hasReturnValue
      THEN LET continueRef == primary + 1
               rejectRef == primary + 2
               continuePos == Pos(position.x + ChildHorizontalOffset(w.version),
                                  position.y - ChildVerticalOffset(w.version))
               rejectPos == Pos(position.x + ChildHorizontalOffset(w.version),
                                position.y + ChildVerticalOffset(w.version))
               action2Item == DraggableItem(w.nextId, label, position,
                                            "action2", workflowItem.id,
                                            properties)
               continueItem == DraggableItem(w.nextId + 1, "Continue",
                                             continuePos, "continue", "",
                                             PositionOnly(continuePos))
               rejectItem == DraggableItem(w.nextId + 2, "Reject", rejectPos,
                                           "reject", "",
                                           PositionOnly(rejectPos))
               pushed == [w EXCEPT
                            !.heap = @ \o <<action2Item, continueItem,
                                            rejectItem>>,
                            !.items = @ \o <<primary, continueRef, rejectRef>>,
                            !.nextId = TakeIds(@, 3)]
               chained == IF w.lastCreatedItem # NULL
                          THEN createArrow(pushed, w.lastCreatedItem, primary)
                          ELSE pushed
               linked == LinkChildren(chained, primary, continueRef, rejectRef)
           IN  [w |-> [linked EXCEPT
                         !.lastCreatedItem =
                            ChainTailOfAction2(primary, continueRef)],
                positions |-> placed.positions]
      ELSE LET newItem == DraggableItem(w.nextId, label, position, "action1",
                                        workflowItem.id, properties)
               pushed == [w EXCEPT !.heap = Append(@, newItem),
                                   !.items = Append(@, primary),
                                   !.nextId = TakeIds(@, 1)]
               chained == IF w.lastCreatedItem # NULL
                          THEN createArrow(pushed, w.lastCreatedItem, primary)
                          ELSE pushed
           IN  [w |-> [chained EXCEPT !.lastCreatedItem = primary],
                positions |-> placed.positions]

RECURSIVE AutoCreateItems(_, _, _, _)
AutoCreateItems(w, positions, sortedData, n) ==
  IF n = 0 THEN [w |-> w, positions |-> positions]
  ELSE LET before == AutoCreateItems(w, positions, sortedData, n - 1)
       IN  AutoCreateItem(before.w, before.positions, sortedData[n], n - 1)

\* Math.max(...sequences of the action1 and action2 nodes, 0)
RECURSIVE MaxSequence(_, _)
MaxSequence(w, n) ==
  IF n = 0 THEN 0
  ELSE LET item == w.heap[w.items[n]]
           rest == MaxSequence(w, n - 1)
       IN  IF item.type \in {"action1", "action2"}
              /\ item.properties.sequence > rest
           THEN item.properties.sequence
           ELSE rest

\* the component's saveCanvasState with the service's
saveCanvasState(w, store) == [store EXCEPT !.canvasState = SavedStateOf(w)]

\* mutant: an empty list is rebuilt from as well, which clears the canvas
autoCreateAction1FromJSONOfAny(w, store) ==
  LET sortedData == sortBySequence(w.workflowData)
      created == AutoCreateItems(RebuildStart(w), store.positions,
                                 sortedData, Len(sortedData))
      routed == updateAllArrows(created.w)
  IN  [ws |-> routed,
       st |-> saveCanvasState(routed,
                              [store EXCEPT !.positions = created.positions])]

\* autoCreateAction1FromJSON: the component and the store afterwards
autoCreateAction1FromJSON(w, store) ==
  IF w.workflowData = <<>> THEN [ws |-> w, st |-> store]
  ELSE LET sortedData == sortBySequence(w.workflowData)
           created == AutoCreateItems(RebuildStart(w), store.positions,
                                      sortedData, Len(sortedData))
           counted == [created.w EXCEPT
                         !.sequenceCounter =
                            MaxSequence(created.w, Len(created.w.items)) + 1]
           routed == updateAllArrows(counted)
       IN  [ws |-> routed,
            st |-> saveCanvasState(routed,
                                   [store EXCEPT
                                      !.positions = created.positions])]

(***************************************************************************)
(* The component's state and its environment.                              *)
(*   ws.scroll, ws.buttons, ws.listeners belong to the page: the scroll    *)
(*   offset of the scroll container, the number of mouse buttons held and  *)
(*   the document listeners registered by the component, in order.         *)
(*   ws.clickTimeout and ws.autoSaveTimer are Absent or the closure of the *)
(*   pending timer.                                                        *)
(*   ws.polling tells that the interval subscription of startPolling is    *)
(*   live, ws.requests counts the poll requests whose response is awaited. *)
(***************************************************************************)
MaxSteps == 5
MaxServerEdits == 1

\* bounding rectangle of the scroll container in the page
ScrollRect == [left |-> 240, top |-> 64]
ScrollOffsets == {Pos(0, 0), Pos(37, 110)}

\* where inside a node's box the pointer presses, and where it moves to
GrabOffsets == {Pos(10, 10)}
MovePoints == {Pos(409, 251), Pos(700, 190)}
\* where a toolbar drag is released: over the canvas and left of it
DropPoints == {Pos(413, 297), Pos(100, 300)}
ToolbarLabels == {"Action 1", "Action 2"}
\* where the toolbar buttons are pressed
ToolbarPoint == Pos(60, 140)
PropertyNames == {"", "Renamed"}

\* the lists the item source holds at first: a single item with a return
\* value; two items out of sequence order, one with a position; and an item
\* of another page before a plain one
ServerLists ==
  { <<WorkflowProcessItem("w1", PAGE_ID, 1, "Approve", "yes", Absent)>>,
    <<WorkflowProcessItem("w2", PAGE_ID, 2, "", "", Absent),
      WorkflowProcessItem("w1", PAGE_ID, 1, "Approve", "yes", Pos(200, 300))>>,
    <<WorkflowProcessItem("w2", 81, 2, "", "yes", Absent),
      WorkflowProcessItem("w1", PAGE_ID, 1, "Approve", "", Absent)>> }

\* what an editor of the item source turns the list into
EditedServerLists ==
  { <<>>,
    <<WorkflowProcessItem("w1", PAGE_ID, 1, "Approve", "yes", Absent)>>,
    <<WorkflowProcessItem("w2", PAGE_ID, 2, "", "", Absent),
      WorkflowProcessItem("w1", PAGE_ID, 3, "Approve", "", Absent)>> }

notWork == <<cv, rt, ld>>

\* the service and the item source before the component has asked for anything
InitialStore(version, server) ==
  [version |-> version, canvasState |-> Absent,
   positions |-> [w \in WorkflowIds |-> Absent],
   server |-> server]

\* the fields of the component as their initialisers leave them
InitialWork(version) ==
  [version |-> version,
   heap |-> <<>>, items |-> <<>>, arrows |-> <<>>,
   workflowData |-> <<>>, lastWorkflowDataHash |-> Absent,
   nextId |-> 1, sequenceCounter |-> 1,
   lastCreatedItem |-> NULL,
   draggedItem |-> NULL, linkedButtons |-> <<>>,
   offset |-> Pos(0, 0), isDragging |-> FALSE,
   canvasOffset |-> Absent, scrollAtDragStart |-> Absent,
   selectedItem |-> NULL, propertyPanelOpen |-> FALSE,
   propertyForm |-> PositionOnly(Pos(0, 0)),
   clickTimeout |-> Absent, autoSaveTimer |-> Absent,
   toolbarDragActive |-> FALSE, toolbarDragLabel |-> "",
   toolbarDragType |-> "", dragPreview |-> Absent,
   loaded |-> FALSE, serverEdits |-> 0,
   scroll |-> Pos(0, 0), buttons |-> 0, listeners |-> <<>>,
   polling |-> TRUE, requests |-> 0,
   steps |-> 0]

InitWork ==
  /\ \E version \in ServiceVersions, server \in ServerLists :
       /\ st = InitialStore(version, server)
       /\ ws = InitialWork(version)
  /\ cv = NoCanvas
  /\ rt = NoRoute
  /\ ld = NoLoad
  /\ ev = Ev("init", R(0), R(0))

\* every handler of the component is one step
Step(w) == [w EXCEPT !.steps = @ + 1]

CanStep == ws.steps < MaxSteps

\* JSON.stringify(data)
HashOf(data) == [json |-> data]

\* the item source answers (ok) or the request fails and yields []
FetchedData(ok) ==
  IF ok THEN getWorkflowProcessByPageId(st, PAGE_ID) ELSE <<>>

\* ngOnInit: loadWorkflowDataAndAutoCreate, when its response arrives
LoadWorkflowDataAndAutoCreate ==
  /\ CanStep /\ ~ws.loaded
  /\ \E ok \in BOOLEAN :
       LET data == FetchedData(ok)
           built == autoCreateAction1FromJSON(
                      [ws EXCEPT !.workflowData = data,
                                 !.lastWorkflowDataHash = HashOf(data),
                                 !.loaded = TRUE], st)
       IN  /\ ws' = Step(built.ws)
           /\ st' = built.st
  /\ ev' = Ev("loadWorkflowDataAndAutoCreate", R(0), R(0))
  /\ UNCHANGED notWork

\* a tick of the polling interval: checkForWorkflowChanges, when its
\* response arrives; ev.x tells whether the read of the item source succeeded
CheckForWorkflowChanges ==
  /\ CanStep
  /\ \E ok \in BOOLEAN :
       LET data == FetchedData(ok)
           currentHash == HashOf(data)
       IN  IF currentHash # ws.lastWorkflowDataHash
           THEN LET built == autoCreateAction1FromJSON(
                               [ws EXCEPT !.workflowData = data,
                                          !.lastWorkflowDataHash = currentHash],
                               st)
                IN  /\ ws' = Step(built.ws)
                    /\ st' = built.st
                    /\ ev' = Ev("autoCreateAction1FromJSON",
                                R(IF ok THEN 1 ELSE 0), R(0))
           ELSE /\ ws' = Step(ws)
                /\ st' = st
                /\ ev' = Ev("checkForWorkflowChanges",
                            R(IF ok THEN 1 ELSE 0), R(0))
  /\ UNCHANGED notWork

\* the item source is edited by someone else
ServerEdit ==
  /\ CanStep /\ ws.serverEdits < MaxServerEdits
  /\ \E server \in EditedServerLists :
       /\ server # st.server
       /\ st' = [st EXCEPT !.server = server]
  /\ ws' = Step([ws EXCEPT !.serverEdits = @ + 1])
  /\ ev' = Ev("serverEdit", R(0), R(0))
  /\ UNCHANGED notWork

\* the user scrolls the canvas
Scroll ==
  /\ CanStep
  /\ \E scroll \in ScrollOffsets :
       /\ scroll # ws.scroll
       /\ ws' = Step([ws EXCEPT !.scroll = scroll])
  /\ ev' = Ev("scroll", R(0), R(0))
  /\ UNCHANGED <<st>>
  /\ UNCHANGED notWork

closePropertyPanel(w) ==
  IF w.version = "localStorage"
  THEN [w EXCEPT !.propertyPanelOpen = FALSE, !.selectedItem = NULL]
  ELSE [w EXCEPT !.propertyPanelOpen = FALSE, !.selectedItem = NULL,
                 !.propertyForm = PositionOnly(Pos(0, 0))]

\* clearCanvas that leaves lastCreatedItem as it is
ClearCanvasKeepTail ==
  /\ CanStep
  /\ ws' = Step(closePropertyPanel(
                  [ws EXCEPT !.items = <<>>, !.arrows = <<>>, !.nextId = 1,
                             !.sequenceCounter = 1]))
  /\ st' = [st EXCEPT !.canvasState = Absent]
  /\ ev' = Ev("clearCanvas", R(0), R(0))
  /\ UNCHANGED notWork

\* clearCanvas with the deleteCanvasState it calls
ClearCanvas ==
  /\ CanStep
  /\ ws' = Step(closePropertyPanel(
                  [ws EXCEPT !.items = <<>>, !.arrows = <<>>,
                             !.lastCreatedItem = NULL, !.nextId = 1,
                             !.sequenceCounter = 1]))
  /\ st' = [st EXCEPT !.canvasState = Absent]
  /\ ev' = Ev("clearCanvas", R(0), R(0))
  /\ UNCHANGED notWork

(***************************************************************************)
(* Toolbar drag and node creation.                                         *)
(***************************************************************************)
canvasWidth == 3200
canvasHeight == 3200

\* document.addEventListener / removeEventListener
AddListener(listeners, name) ==
  IF \E i \in 1..Len(listeners) : listeners[i] = name THEN listeners
  ELSE Append(listeners, name)

RemoveListener(listeners, name) ==
  LET Other(l) == l # name
  IN  SelectSeq(listeners, Other)

\* mutant: the drop point is not snapped
SnapToGridNot(v) == v

\* Math.round(v / 20) * 20; Math.round rounds a half up
SnapToGrid(v) == ((v + GridSize \div 2) \div GridSize) * GridSize

\* onToolbarButtonMouseDown
OnToolbarButtonMouseDown ==
  /\ CanStep /\ ws.buttons < 2
  /\ \E label \in ToolbarLabels, client \in {ToolbarPoint} :
       /\ ws' = Step([ws EXCEPT
                        !.toolbarDragLabel = label,
                        !.toolbarDragType = IF label = "Action 1"
                                            THEN "action1" ELSE "action2",
                        !.toolbarDragActive = TRUE,
                        !.dragPreview = [label |-> label, x |-> client.x,
                                         y |-> client.y],
                        !.buttons = @ + 1,
                        !.listeners = AddListener(AddListener(@, "toolbarMove"),
                                                  "toolbarUp")])
       /\ ev' = Ev("onToolbarButtonMouseDown", R(client.x), R(client.y))
  /\ UNCHANGED <<st>>
  /\ UNCHANGED notWork

\* the toolbar's mousemove listener
onToolbarDragMove(w, client) ==
  IF w.dragPreview # Absent /\ (w.version = "localStorage" \/ w.toolbarDragActive)
  THEN [w EXCEPT !.dragPreview = [@ EXCEPT !.x = client.x, !.y = client.y]]
  ELSE w

\* createNewItemFromToolbar ("localStorage" version)
createNewItemFromToolbar(w, store, client, label, type) ==
  LET canvasX == client.x - ScrollRect.left + w.scroll.x
      canvasY == client.y - ScrollRect.top + w.scroll.y
      position == Pos(SnapToGrid(canvasX), SnapToGrid(canvasY))
      newProperties == generateDefaultProperties(label, position,
                                                 w.sequenceCounter)
      newItem == DraggableItem(w.nextId, label, position, type, "",
                               newProperties)
      ref == NewRef(w)
      pushed == [w EXCEPT !.heap = Append(@, newItem),
                          !.items = Append(@, ref),
                          !.nextId = TakeIds(@, 1),
                          !.sequenceCounter = @ + 1]
      chained == IF w.lastCreatedItem # NULL
                 THEN createArrow(pushed, w.lastCreatedItem, ref)
                 ELSE pushed
      routed == updateAllArrows([chained EXCEPT !.lastCreatedItem = ref])
  IN  [ws |-> routed, st |-> saveCanvasState(routed, store)]

\* getDefaultProperties ("http" version): the properties and the counter
getDefaultProperties(w, label, position) ==
  LET Matching(item) == item.sequence = w.sequenceCounter
      matchingData == SelectSeq(w.workflowData, Matching)
  IN  [properties |->
         IF matchingData # <<>>
         THEN createPropertiesFromWorkflow(matchingData[1], position)
         ELSE generateDefaultProperties(label, position, w.sequenceCounter),
       sequenceCounter |-> w.sequenceCounter + 1]

\* createItemAtPosition ("http" version)
createItemAtPosition(w, store, x, y) ==
  IF w.toolbarDragType = "" \/ w.toolbarDragLabel = ""
  THEN [ws |-> w, st |-> store]
  ELSE
  LET position == Pos(x - 70, y - 32)
      defaults == getDefaultProperties(w, w.toolbarDragLabel, position)
      newItem == DraggableItem(w.nextId, w.toolbarDragLabel, position,
                               w.toolbarDragType, "", defaults.properties)
      ref == NewRef(w)
      pushed == [w EXCEPT !.heap = Append(@, newItem),
                          !.items = Append(@, ref),
                          !.nextId = TakeIds(@, 1),
                          !.sequenceCounter = defaults.sequenceCounter]
      chained == IF w.lastCreatedItem # NULL
                 THEN createArrow(pushed, w.lastCreatedItem, ref)
                 ELSE pushed
      created ==
        IF w.toolbarDragLabel = "Action 2"
        THEN LET continuePos == Pos(position.x + 240, position.y - 70)
                 rejectPos == Pos(position.x + 240, position.y + 70)
                 continueDefaults == getDefaultProperties(chained, "Continue",
                                                          continuePos)
                 continueBtn == DraggableItem(chained.nextId, "Continue",
                                              continuePos, "continue", "",
                                              continueDefaults.properties)
                 rejectBtn == DraggableItem(chained.nextId + 1, "Reject",
                                            rejectPos, "reject", "",
                                            PositionOnly(rejectPos))
                 withChildren ==
                   [chained EXCEPT
                      !.heap = @ \o <<continueBtn, rejectBtn>>,
                      !.items = @ \o <<ref + 1, ref + 2>>,
                      !.nextId = TakeIds(@, 2),
                      !.sequenceCounter = continueDefaults.sequenceCounter]
                 linked == createArrow(createArrow(withChildren, ref, ref + 1),
                                       ref, ref + 2)
             IN  [linked EXCEPT !.linkedButtons = <<ref + 1, ref + 2>>,
                                !.lastCreatedItem = ref + 1]
        ELSE [chained EXCEPT !.linkedButtons = <<>>,
                             !.lastCreatedItem = ref]
      routed == updateAllArrows(created)
  IN  [ws |-> routed, st |-> saveCanvasState(routed, store)]

resetToolbarDrag(w) ==
  [w EXCEPT !.toolbarDragActive = FALSE,
            !.toolbarDragLabel = IF w.version = "localStorage" THEN @ ELSE "",
            !.toolbarDragType = "",
            !.dragPreview = Absent]

\* the toolbar's mouseup listener: the component and the store afterwards
onToolbarMouseUp(w, store, client) ==
  LET unlistened == [w EXCEPT
                       !.listeners = RemoveListener(
                                       RemoveListener(@, "toolbarMove"),
                                       "toolbarUp")]
  IN
  IF w.version = "localStorage"
  THEN LET dropped ==
             IF w.toolbarDragActive /\ w.toolbarDragType # ""
             THEN createNewItemFromToolbar(unlistened, store, client,
                                           w.toolbarDragLabel,
                                           w.toolbarDragType)
             ELSE [ws |-> unlistened, st |-> store]
       IN  [ws |-> resetToolbarDrag(dropped.ws), st |-> dropped.st]
  ELSE IF ~w.toolbarDragActive THEN [ws |-> unlistened, st |-> store]
  ELSE LET left == ScrollRect.left - w.scroll.x
           top == ScrollRect.top - w.scroll.y
           dropped ==
             IF /\ client.x >= left /\ client.x <= left + canvasWidth
                /\ client.y >= top /\ client.y <= top + canvasHeight
             THEN createItemAtPosition(unlistened, store,
                                       client.x - left + w.scroll.x,
                                       client.y - top + w.scroll.y)
             ELSE [ws |-> unlistened, st |-> store]
       IN  [ws |-> resetToolbarDrag(dropped.ws), st |-> dropped.st]

(***************************************************************************)
(* Pressing and dragging a node.                                           *)
(***************************************************************************)
\* the page position of a point of the canvas
ClientOf(w, position) ==
  Pos(ScrollRect.left - w.scroll.x + position.x,
      ScrollRect.top - w.scroll.y + position.y)

RefsOf(refs) == { refs[i] : i \in 1..Len(refs) }

\* arrows.some(a => a.from.id === item.id && a.to.id === i.id)
LinkedById(w, item, i) ==
  \E k \in 1..Len(w.arrows) :
     /\ w.heap[w.arrows[k].from].id = w.heap[item].id
     /\ w.heap[w.arrows[k].to].id = w.heap[i].id

\* the items of the given types that an arrow links to item, in items order
LinkedOfTypes(w, item, types) ==
  LET Is(i) == w.heap[i].type \in types /\ LinkedById(w, item, i)
  IN  SelectSeq(w.items, Is)

\* items.find(...): the first one, if any
FirstOf(refs) == IF refs = <<>> THEN <<>> ELSE <<refs[1]>>

\* the linked buttons of a node whose drag starts
LinkedButtonsOf(w, item) ==
  IF w.heap[item].type # "action2" THEN <<>>
  ELSE IF w.version = "localStorage"
  THEN FirstOf(LinkedOfTypes(w, item, {"continue"}))
         \o FirstOf(LinkedOfTypes(w, item, {"reject"}))
  ELSE LinkedOfTypes(w, item, {"continue", "reject"})

\* openPropertyPanel ("localStorage") and onItemClick ("http")
openPropertyPanel(w, item) ==
  IF w.version = "http" /\ w.heap[item].type = "reject" THEN w
  ELSE [w EXCEPT !.selectedItem = item,
                 !.propertyForm = w.heap[item].properties,
                 !.propertyPanelOpen = TRUE]

\* startDragging ("http" version)
startDragging(w, item, client) ==
  LET left == ScrollRect.left - w.scroll.x
      top == ScrollRect.top - w.scroll.y
      mouseXInCanvas == client.x - left + w.scroll.x
      mouseYInCanvas == client.y - top + w.scroll.y
  IN  [w EXCEPT
         !.draggedItem = item,
         !.isDragging = FALSE,
         !.linkedButtons = LinkedButtonsOf(w, item),
         !.canvasOffset = Pos(left, top),
         !.scrollAtDragStart = w.scroll,
         !.offset = Pos(mouseXInCanvas - w.heap[item].position.x,
                        mouseYInCanvas - w.heap[item].position.y),
         !.listeners = AddListener(AddListener(@, "dragMove"), "dragUp")]

\* onMouseDown on a node of the canvas
onMouseDown(w, item, client) ==
  IF w.version = "localStorage"
  THEN IF w.clickTimeout # Absent
       THEN openPropertyPanel([w EXCEPT !.clickTimeout = Absent], item)
       ELSE [w EXCEPT
               !.clickTimeout = [item |-> item, clientX |-> client.x,
                                 clientY |-> client.y],
               !.listeners = AddListener(@, "clickUp")]
  ELSE startDragging(
         [w EXCEPT !.clickTimeout = [item |-> item, clientX |-> client.x,
                                     clientY |-> client.y]],
         item, client)

OnMouseDown ==
  /\ CanStep /\ ws.buttons < 2
  /\ \E i \in 1..Len(ws.items), grab \in GrabOffsets :
       LET item == ws.items[i]
           at == ClientOf(ws, ws.heap[item].position)
           client == Pos(at.x + grab.x, at.y + grab.y)
       IN  /\ ws' = Step([onMouseDown(ws, item, client) EXCEPT
                            !.buttons = @ + 1])
           /\ ev' = Ev("onMouseDown", R(client.x), R(client.y))
  /\ UNCHANGED <<st>>
  /\ UNCHANGED notWork

\* the callback of the click timer (200 ms after the press)
onClickTimeout(w) ==
  LET item == w.clickTimeout.item
      cleared == [w EXCEPT !.clickTimeout = Absent]
  IN  IF w.version = "localStorage"
      THEN [cleared EXCEPT
              !.selectedItem = item,
              !.draggedItem = item,
              !.offset = Pos(w.clickTimeout.clientX - w.heap[item].position.x,
                             w.clickTimeout.clientY - w.heap[item].position.y),
              !.canvasOffset = Pos(-w.scroll.x, -w.scroll.y),
              !.scrollAtDragStart = w.scroll,
              !.linkedButtons = LinkedButtonsOf(w, item),
              !.isDragging = TRUE,
              !.listeners = AddListener(AddListener(@, "dragMove"), "dragUp")]
      ELSE IF ~w.isDragging THEN openPropertyPanel(cleared, item)
      ELSE cleared

ClickTimeoutFires ==
  /\ CanStep /\ ws.clickTimeout # Absent
  /\ ws' = Step(onClickTimeout(ws))
  /\ ev' = Ev("clickTimeout", R(0), R(0))
  /\ UNCHANGED <<st>>
  /\ UNCHANGED notWork

MoveItemTo(heap, item, position) ==
  [heap EXCEPT ![item].position = position,
               ![item].properties.position = position]

\* for (const linkedBtn of linkedButtons) linkedBtn.position += delta
RECURSIVE MoveLinked(_, _, _, _, _)
MoveLinked(heap, linkedButtons, n, deltaX, deltaY) ==
  IF n = 0 THEN heap
  ELSE LET before == MoveLinked(heap, linkedButtons, n - 1, deltaX, deltaY)
           linkedBtn == linkedButtons[n]
       IN  MoveItemTo(before, linkedBtn,
                      Pos(before[linkedBtn].position.x + deltaX,
                          before[linkedBtn].position.y + deltaY))

\* the move of a drag without its updateAllArrows call
DragToStalePaths(w, newX, newY) ==
  LET deltaX == newX - w.heap[w.draggedItem].position.x
      deltaY == newY - w.heap[w.draggedItem].position.y
      moved == MoveItemTo(w.heap, w.draggedItem, Pos(newX, newY))
  IN  [w EXCEPT !.heap = MoveLinked(moved, w.linkedButtons,
                                    Len(w.linkedButtons), deltaX, deltaY)]

\* the dragged item goes to (newX, newY), the linked buttons follow
DragTo(w, newX, newY) ==
  LET deltaX == newX - w.heap[w.draggedItem].position.x
      deltaY == newY - w.heap[w.draggedItem].position.y
      moved == MoveItemTo(w.heap, w.draggedItem, Pos(newX, newY))
  IN  updateAllArrows(
        [w EXCEPT !.heap = MoveLinked(moved, w.linkedButtons,
                                      Len(w.linkedButtons), deltaX, deltaY)])

\* onMouseMove, the document's mousemove listener during a drag
onMouseMove(w, client) ==
  IF w.version = "localStorage"
  THEN IF ~w.isDragging \/ w.draggedItem = NULL THEN w
       ELSE LET scrolled == w.canvasOffset # Absent
                              /\ w.scrollAtDragStart # Absent
                adjustedClientX == IF scrolled
                                   THEN client.x + (w.scroll.x
                                                    - w.scrollAtDragStart.x)
                                   ELSE client.x
                adjustedClientY == IF scrolled
                                   THEN client.y + (w.scroll.y
                                                    - w.scrollAtDragStart.y)
                                   ELSE client.y
            IN  DragTo(w, SnapToGrid(adjustedClientX - w.offset.x),
                       SnapToGrid(adjustedClientY - w.offset.y))
  ELSE IF w.draggedItem = NULL \/ w.canvasOffset = Absent
          \/ w.scrollAtDragStart = Absent
       THEN w
       ELSE LET dragging == IF ~w.isDragging
                            THEN [w EXCEPT !.isDragging = TRUE,
                                           !.clickTimeout = Absent]
                            ELSE w
            IN  DragTo(dragging,
                       client.x - w.canvasOffset.x - w.offset.x
                         + (w.scroll.x - w.scrollAtDragStart.x),
                       client.y - w.canvasOffset.y - w.offset.y
                         + (w.scroll.y - w.scrollAtDragStart.y))

\* autoSavePosition: the pending save is replaced by one for item
autoSavePosition(w, item) ==
  IF w.version = "localStorage" /\ w.heap[item].workflowId = "" THEN w
  ELSE [w EXCEPT !.autoSaveTimer = [item |-> item]]

RECURSIVE AutoSaveLinked(_, _)
AutoSaveLinked(w, n) ==
  IF n = 0 THEN w
  ELSE LET before == AutoSaveLinked(w, n - 1)
           linkedBtn == w.linkedButtons[n]
       IN  IF w.heap[linkedBtn].workflowId # ""
           THEN autoSavePosition(before, linkedBtn)
           ELSE before

\* onMouseUp, the document's mouseup listener during a drag
onMouseUp(w) ==
  LET saved == IF w.isDragging /\ w.draggedItem # NULL
               THEN AutoSaveLinked(autoSavePosition(w, w.draggedItem),
                                   Len(w.linkedButtons))
               ELSE w
  IN  [saved EXCEPT
         !.canvasOffset = Absent, !.scrollAtDragStart = Absent,
         !.isDragging = FALSE, !.draggedItem = NULL,
         !.linkedButtons = <<>>,
         !.listeners = RemoveListener(RemoveListener(@, "dragMove"), "dragUp")]

\* the mouseup listener that onMouseDown registers ("localStorage" version)
onClickMouseUp(w) ==
  [w EXCEPT !.clickTimeout = Absent,
            !.listeners = RemoveListener(@, "clickUp")]

\* one listener of the document handles the event; s is [ws, st]
HandleEvent(type, listener, s, client) ==
  IF type = "mousemove" /\ listener = "toolbarMove"
  THEN [s EXCEPT !.ws = onToolbarDragMove(@, client)]
  ELSE IF type = "mousemove" /\ listener = "dragMove"
  THEN [s EXCEPT !.ws = onMouseMove(@, client)]
  ELSE IF type = "mouseup" /\ listener = "toolbarUp"
  THEN onToolbarMouseUp(s.ws, s.st, client)
  ELSE IF type = "mouseup" /\ listener = "dragUp"
  THEN [s EXCEPT !.ws = onMouseUp(@)]
  ELSE IF type = "mouseup" /\ listener = "clickUp"
  THEN [s EXCEPT !.ws = onClickMouseUp(@)]
  ELSE s

\* the listeners registered when the event is dispatched handle it in order
RECURSIVE Dispatch(_, _, _, _, _)
Dispatch(type, listeners, n, s, client) ==
  IF n = 0 THEN s
  ELSE HandleEvent(type, listeners[n],
                   Dispatch(type, listeners, n - 1, s, client), client)

HasListener(name) == \E i \in 1..Len(ws.listeners) : ws.listeners[i] = name

\* a mousemove event of the document
MouseMove ==
  /\ CanStep
  /\ HasListener("dragMove") \/ HasListener("toolbarMove")
  /\ \E client \in MovePoints :
       LET after == Dispatch("mousemove", ws.listeners, Len(ws.listeners),
                             [ws |-> ws, st |-> st], client)
       IN  /\ ws' = Step(after.ws)
           /\ st' = after.st
           /\ ev' = Ev(IF HasListener("dragMove") THEN "onMouseMove"
                       ELSE "onToolbarDragMove", R(client.x), R(client.y))
  /\ UNCHANGED notWork

\* a mouseup event of the document
MouseUp ==
  /\ CanStep /\ ws.buttons > 0
  /\ \E client \in DropPoints :
       LET after == Dispatch("mouseup", ws.listeners, Len(ws.listeners),
                             [ws |-> ws, st |-> st], client)
       IN  /\ ws' = Step([after.ws EXCEPT !.buttons = @ - 1])
           /\ st' = after.st
           /\ ev' = Ev(IF Len(after.ws.items) = Len(ws.items) THEN "onMouseUp"
                       ELSE IF ws.version = "localStorage"
                       THEN "createNewItemFromToolbar"
                       ELSE "createItemAtPosition",
                       R(client.x), R(client.y))
  /\ UNCHANGED notWork

\* the item source replaces the record with the given id (PUT)
PutWorkflowProcess(server, id, data) ==
  [i \in 1..Len(server) |-> IF server[i].id = id THEN data ELSE server[i]]

\* the component's updateWorkflowPosition ("http" version) with the
\* service's and the handling of the response
updateWorkflowPosition(w, store, item) ==
  LET node == w.heap[item]
      Same(workflowItem) == workflowItem.id = node.workflowId
      found == SelectSeq(w.workflowData, Same)
      onServer == SelectSeq(store.server, Same)
  IN  IF node.workflowId = "" \/ found = <<>>
      THEN [ws |-> w, st |-> store]
      ELSE LET updateData == [found[1] EXCEPT
                                !.position = node.position,
                                !.sequence = node.properties.sequence,
                                !.name = node.properties.name,
                                !.lastmodifiedby =
                                   node.properties.lastmodifiedby]
               sent == [updateData EXCEPT !.position = node.position,
                                          !.lastmodifiedby = 1]
               workflowData ==
                 [i \in 1..Len(w.workflowData) |->
                    IF i = CHOOSE k \in 1..Len(w.workflowData) :
                              /\ Same(w.workflowData[k])
                              /\ \A j \in 1..(k - 1) : ~Same(w.workflowData[j])
                    THEN updateData ELSE w.workflowData[i]]
           IN  IF onServer = <<>>
               THEN [ws |-> w, st |-> store]
               ELSE [ws |-> [w EXCEPT
                               !.workflowData = workflowData,
                               !.lastWorkflowDataHash = HashOf(workflowData)],
                     st |-> [store EXCEPT
                               !.server = PutWorkflowProcess(@, node.workflowId,
                                                             sent)]]

\* the callback of the auto-save timer
AutoSaveTimerFires ==
  /\ CanStep /\ ws.autoSaveTimer # Absent
  /\ LET item == ws.autoSaveTimer.item
         cleared == [ws EXCEPT !.autoSaveTimer = Absent]
     IN  IF ws.version = "localStorage"
         THEN /\ ws' = Step(cleared)
              /\ st' = [st EXCEPT
                          !.positions = savePosition(
                                          ws.version, @,
                                          ws.heap[item].workflowId,
                                          ws.heap[item].position)]
         ELSE LET updated == updateWorkflowPosition(cleared, st, item)
              IN  /\ ws' = Step(updated.ws)
                  /\ st' = saveCanvasState(updated.ws, updated.st)
  /\ ev' = Ev("autoSaveTimer", R(0), R(0))
  /\ UNCHANGED notWork

(***************************************************************************)
(* The property panel.                                                     *)
(***************************************************************************)
\* setPropertyValue('name', ...)
SetPropertyValue ==
  /\ CanStep /\ ws.propertyPanelOpen
  /\ \E name \in PropertyNames :
       /\ name # ws.propertyForm.name
       /\ ws' = Step([ws EXCEPT !.propertyForm.name = name])
  /\ ev' = Ev("setPropertyValue", R(0), R(0))
  /\ UNCHANGED <<st>>
  /\ UNCHANGED notWork

\* saveProperties: the component and the store afterwards
saveProperties(w, store) ==
  IF w.selectedItem = NULL THEN [ws |-> w, st |-> store]
  ELSE
  LET item == w.selectedItem
      form == IF w.version = "localStorage" THEN w.propertyForm
              ELSE [w.propertyForm EXCEPT !.lastmodifiedby = 1]
      label == IF form.name # "" THEN form.name ELSE w.heap[item].label
      edited == [w EXCEPT !.propertyForm = form,
                          !.heap[item].properties = form,
                          !.heap[item].label = label,
                          !.heap[item].position = form.position]
  IN  IF w.version = "localStorage"
      THEN LET scheduled == IF w.heap[item].workflowId # ""
                            THEN autoSavePosition(edited, item) ELSE edited
               routed == updateAllArrows(scheduled)
           IN  [ws |-> closePropertyPanel(routed),
                st |-> saveCanvasState(routed, store)]
      ELSE LET routed == updateAllArrows(edited)
               updated == updateWorkflowPosition(routed, store, item)
           IN  [ws |-> closePropertyPanel(updated.ws),
                st |-> saveCanvasState(updated.ws, updated.st)]

SaveProperties ==
  /\ CanStep /\ ws.propertyPanelOpen
  /\ LET saved == saveProperties(ws, st)
     IN  /\ ws' = Step(saved.ws)
         /\ st' = saved.st
  /\ ev' = Ev("saveProperties", R(0), R(0))
  /\ UNCHANGED notWork

\* cancelProperties
CancelProperties ==
  /\ CanStep /\ ws.propertyPanelOpen
  /\ ws' = Step(closePropertyPanel(ws))
  /\ ev' = Ev("cancelProperties", R(0), R(0))
  /\ UNCHANGED <<st>>
  /\ UNCHANGED notWork

NextWork ==
  \/ LoadWorkflowDataAndAutoCreate
  \/ CheckForWorkflowChanges
  \/ ServerEdit
  \/ Scroll
  \/ ClearCanvas
  \/ OnToolbarButtonMouseDown
  \/ OnMouseDown
  \/ ClickTimeoutFires
  \/ MouseMove
  \/ MouseUp
  \/ AutoSaveTimerFires
  \/ SetPropertyValue
  \/ SaveProperties
  \/ CancelProperties

SpecWork == InitWork /\ [][NextWork]_vars

(***************************************************************************)
(* A drag gesture on the loaded canvas (SpecDrag).  The run starts when    *)
(* the response of ngOnInit's load has built the canvas, the item source   *)
(* is edited by nobody else, and the handlers are those of a node drag,    *)
(* the two timers and the poll; MaxDragSteps of them run.                  *)
(***************************************************************************)
MaxDragSteps == 7

InitDrag ==
  /\ \E version \in ServiceVersions, server \in ServerLists :
       LET data == getWorkflowProcessByPageId(InitialStore(version, server),
                                              PAGE_ID)
           built == autoCreateAction1FromJSON(
                      [InitialWork(version) EXCEPT
                         !.workflowData = data,
                         !.lastWorkflowDataHash = HashOf(data),
                         !.loaded = TRUE],
                      InitialStore(version, server))
       IN  /\ ws = [built.ws EXCEPT !.steps = MaxSteps - MaxDragSteps]
           /\ st = built.st
  /\ cv = NoCanvas
  /\ rt = NoRoute
  /\ ld = NoLoad
  /\ ev = Ev("loadWorkflowDataAndAutoCreate", R(0), R(0))

NextDrag ==
  \/ OnMouseDown
  \/ ClickTimeoutFires
  \/ MouseMove
  \/ MouseUp
  \/ AutoSaveTimerFires
  \/ CheckForWorkflowChanges

SpecDrag == InitDrag /\ [][NextDrag]_vars

(***************************************************************************)
(* The placement of rebuilt nodes (SpecPlace).  The item source holds two  *)
(* items whose position fields range over PersistedPositions, the position *)
(* store of the localStorage version holds nothing or an earlier position  *)
(* of the first item, and the load and the poll rebuild the canvas.        *)
(***************************************************************************)
MaxPlaceSteps == 2

\* the position field of an item at the source: missing, the origin, on the
\* left border, on the top border, inside the canvas
PersistedPositions ==
  {Absent, Pos(0, 0), Pos(0, 300), Pos(260, 0), Pos(200, 300)}

\* what localStorage holds under the first item's key
EarlierPositions == {Absent, Pos(0, 0), Pos(340, 260)}

PlacedLists ==
  { <<WorkflowProcessItem("w2", PAGE_ID, 2, "", "", second),
      WorkflowProcessItem("w1", PAGE_ID, 1, "Approve", "yes", first)>> :
    first \in PersistedPositions, second \in PersistedPositions }

InitPlace ==
  /\ \E version \in ServiceVersions, server \in PlacedLists,
        stored \in EarlierPositions :
       /\ version = "http" => stored = Absent
       /\ st = [InitialStore(version, server) EXCEPT
                  !.positions["w1"] = stored]
       /\ ws = [InitialWork(version) EXCEPT !.steps = MaxSteps - MaxPlaceSteps]
  /\ cv = NoCanvas
  /\ rt = NoRoute
  /\ ld = NoLoad
  /\ ev = Ev("init", R(0), R(0))

NextPlace ==
  \/ LoadWorkflowDataAndAutoCreate
  \/ CheckForWorkflowChanges

SpecPlace == InitPlace /\ [][NextPlace]_vars

(***************************************************************************)
(* The order of rebuilt nodes (SpecOrder).  The item source holds two      *)
(* items in either order of their ids, each with a sequence of             *)
(* ItemSequences, where 0 stands for a missing sequence field              *)
(* (a.sequence || 0); the load and the poll rebuild the canvas.            *)
(***************************************************************************)
MaxOrderSteps == 2
ItemSequences == {0, 1, 2}

OrderedLists ==
  { <<WorkflowProcessItem(first, PAGE_ID, firstSequence, "", "", Absent),
      WorkflowProcessItem(second, PAGE_ID, secondSequence, "", "yes", Absent)>> :
    first \in WorkflowIds, second \in WorkflowIds,
    firstSequence \in ItemSequences, secondSequence \in ItemSequences }

InitOrder ==
  /\ \E version \in ServiceVersions, server \in OrderedLists :
       /\ server[1].id # server[2].id
       /\ st = InitialStore(version, server)
       /\ ws = [InitialWork(version) EXCEPT !.steps = MaxSteps - MaxOrderSteps]
  /\ cv = NoCanvas
  /\ rt = NoRoute
  /\ ld = NoLoad
  /\ ev = Ev("init", R(0), R(0))

NextOrder ==
  \/ LoadWorkflowDataAndAutoCreate
  \/ CheckForWorkflowChanges

SpecOrder == InitOrder /\ [][NextOrder]_vars

(***************************************************************************)
(* Teardown of the component (SpecTeardown).  The run starts on the loaded *)
(* canvas; the polling interval issues requests whose responses arrive     *)
(* later, the item source may be edited, nodes are pressed and dragged,    *)
(* the timers expire, and ngOnDestroy runs at any moment.                  *)
(***************************************************************************)
MaxTeardownSteps == 5
MaxRequests == 1

InitTeardown ==
  /\ \E version \in ServiceVersions, server \in ServerLists :
       LET data == getWorkflowProcessByPageId(InitialStore(version, server),
                                              PAGE_ID)
           built == autoCreateAction1FromJSON(
                      [InitialWork(version) EXCEPT
                         !.workflowData = data,
                         !.lastWorkflowDataHash = HashOf(data),
                         !.loaded = TRUE],
                      InitialStore(version, server))
       IN  /\ ws = [built.ws EXCEPT !.steps = MaxSteps - MaxTeardownSteps]
           /\ st = built.st
  /\ cv = NoCanvas
  /\ rt = NoRoute
  /\ ld = NoLoad
  /\ ev = Ev("loadWorkflowDataAndAutoCreate", R(0), R(0))

\* interval(2000) fires: checkForWorkflowChanges sends its request
PollTick ==
  /\ CanStep /\ ws.polling /\ ws.requests < MaxRequests
  /\ ws' = Step([ws EXCEPT !.requests = @ + 1])
  /\ ev' = Ev("checkForWorkflowChanges", R(0), R(0))
  /\ UNCHANGED <<st>>
  /\ UNCHANGED notWork

\* the response of a poll request arrives at the subscriber of
\* checkForWorkflowChanges
PollResponse ==
  /\ CanStep /\ ws.requests > 0
  /\ \E ok \in BOOLEAN :
       LET data == FetchedData(ok)
           currentHash == HashOf(data)
           answered == [ws EXCEPT !.requests = @ - 1]
       IN  IF currentHash # ws.lastWorkflowDataHash
           THEN LET built == autoCreateAction1FromJSON(
                               [answered EXCEPT
                                  !.workflowData = data,
                                  !.lastWorkflowDataHash = currentHash],
                               st)
                IN  /\ ws' = Step(built.ws)
                    /\ st' = built.st
                    /\ ev' = Ev("autoCreateAction1FromJSON", R(0), R(0))
           ELSE /\ ws' = Step(answered)
                /\ st' = st
                /\ ev' = Ev("pollResponse", R(0), R(0))
  /\ UNCHANGED notWork

\* ngOnDestroy: pollingSubscription.unsubscribe(), clearTimeout(autoSaveTimer)
NgOnDestroy ==
  /\ CanStep /\ ws.polling
  /\ ws' = Step([ws EXCEPT !.polling = FALSE, !.autoSaveTimer = Absent])
  /\ ev' = Ev("ngOnDestroy", R(0), R(0))
  /\ UNCHANGED <<st>>
  /\ UNCHANGED notWork

\* the mousedown binding of a node exists while the component's view does
PressNode == ws.polling /\ OnMouseDown

NextTeardown ==
  \/ PollTick
  \/ PollResponse
  \/ NgOnDestroy
  \/ ServerEdit
  \/ PressNode
  \/ ClickTimeoutFires
  \/ MouseMove
  \/ MouseUp
  \/ AutoSaveTimerFires

SpecTeardown == InitTeardown /\ [][NextTeardown]_vars

(***************************************************************************)
(* Concurrent saves of the canvas state (SpecSave).  ld.calls lists the    *)
(* saveCanvasState calls in the order they were issued, each with the      *)
(* state it saves and the request it waits for: the localStorage version   *)
(* writes at once; the http version reads the record (getCanvasStateRaw),  *)
(* then sends a PUT when the read found one and a POST when it found none, *)
(* and the backend handles the requests of different calls in any order.   *)
(***************************************************************************)
MaxSaves == 3
CANVAS_STATE_ID == "1"

SaveStates == { [items |-> <<>>, arrows |-> <<>>, nextId |-> n] : n \in 1..3 }

\* { ...state, id: this.CANVAS_STATE_ID }
StateWithId(state) ==
  [items |-> state.items, arrows |-> state.arrows, nextId |-> state.nextId,
   id |-> CANVAS_STATE_ID]

\* what the backend holds before the first call
RecordOf(version, state) ==
  IF version = "http" THEN StateWithId(state) ELSE state

InitSave ==
  /\ \E version \in ServiceVersions, state \in SaveStates,
        exists \in BOOLEAN :
       st = [InitialStore(version, <<>>) EXCEPT
               !.canvasState = IF exists THEN RecordOf(version, state)
                               ELSE Absent]
  /\ ld = [calls |-> <<>>]
  /\ cv = NoCanvas
  /\ rt = NoRoute
  /\ ws = NoWork
  /\ ev = Ev("init", R(0), R(0))

\* saveCanvasState(state) is called
SaveCanvasState ==
  /\ Len(ld.calls) < MaxSaves
  /\ \E state \in SaveStates :
       IF st.version = "localStorage"
       THEN /\ st' = [st EXCEPT !.canvasState = state]
            /\ ld' = [ld EXCEPT
                        !.calls = Append(@, [state |-> state,
                                             waitsFor |-> "nothing"])]
       ELSE /\ st' = st
            /\ ld' = [ld EXCEPT
                        !.calls = Append(@, [state |-> state,
                                             waitsFor |-> "get"])]
  /\ ev' = Ev("saveCanvasState", R(0), R(0))
  /\ UNCHANGED notLoad

\* the backend answers the read of a call and switchMap sends the write
SaveRead ==
  /\ \E i \in 1..Len(ld.calls) :
       /\ ld.calls[i].waitsFor = "get"
       /\ ld' = [ld EXCEPT
                   !.calls[i].waitsFor =
                      IF st.canvasState # Absent THEN "put" ELSE "post"]
  /\ st' = st
  /\ ev' = Ev("getCanvasStateRaw", R(0), R(0))
  /\ UNCHANGED notLoad

\* the backend handles the PUT of a call: it replaces the record it has
SaveUpdate ==
  /\ \E i \in 1..Len(ld.calls) :
       /\ ld.calls[i].waitsFor = "put"
       /\ ld' = [ld EXCEPT !.calls[i].waitsFor = "nothing"]
       /\ st' = [st EXCEPT
                   !.canvasState =
                      IF @ # Absent THEN StateWithId(ld.calls[i].state)
                      ELSE @]
  /\ ev' = Ev("updateCanvasState", R(0), R(0))
  /\ UNCHANGED notLoad

\* the backend handles the POST of a call: it refuses a second record with
\* the id it already has
SaveCreate ==
  /\ \E i \in 1..Len(ld.calls) :
       /\ ld.calls[i].waitsFor = "post"
       /\ ld' = [ld EXCEPT !.calls[i].waitsFor = "nothing"]
       /\ st' = [st EXCEPT
                   !.canvasState =
                      IF @ = Absent THEN StateWithId(ld.calls[i].state)
                      ELSE @]
  /\ ev' = Ev("createCanvasState", R(0), R(0))
  /\ UNCHANGED notLoad

NextSave == SaveCanvasState \/ SaveRead \/ SaveUpdate \/ SaveCreate

SpecSave == InitSave /\ [][NextSave]_vars

(***************************************************************************)
(* Import of a positions backup (SpecImport).  A text is a sequence of     *)
(* characters; st.positions is the localStorage item under POSITIONS_KEY,  *)
(* Absent or the text stored there; ld is the last importPositions call:   *)
(* the string it was given, the value it returned and whether an exception *)
(* left it.  JSON values are numbers (their digits), strings (their        *)
(* characters) and objects (their members in creation order).              *)
(***************************************************************************)
MaxBackupEntries == 2

Quote == "\""
DigitChars == {"0", "1", "2"}

Failed == [ok |-> FALSE]

\* the index of the first Quote of s at or after i, 0 when there is none
RECURSIVE NextQuote(_, _)
NextQuote(s, i) ==
  IF i > Len(s) THEN 0
  ELSE IF s[i] = Quote THEN i
  ELSE NextQuote(s, i + 1)

\* the index after the run of digits of s that starts at i
RECURSIVE DigitsEnd(_, _)
DigitsEnd(s, i) ==
  IF i <= Len(s) /\ s[i] \in DigitChars THEN DigitsEnd(s, i + 1) ELSE i

\* a string literal at s[i] = Quote
ParseString(s, i) ==
  LET j == NextQuote(s, i + 1)
  IN  IF j = 0 THEN Failed
      ELSE [ok |-> TRUE, next |-> j + 1,
            value |-> [kind |-> "string", chars |-> SubSeq(s, i + 1, j - 1)]]

\* a number at s[i], a digit: 0, or a run of digits that starts with no 0
ParseNumber(s, i) ==
  LET j == IF s[i] = "0" THEN i + 1 ELSE DigitsEnd(s, i)
  IN  [ok |-> TRUE, next |-> j,
       value |-> [kind |-> "number", digits |-> SubSeq(s, i, j - 1)]]

\* obj[key] = value: an existing key keeps its place and takes the value
SetMember(members, key, value) ==
  IF \E k \in 1..Len(members) : members[k].key = key
  THEN [k \in 1..Len(members) |->
          IF members[k].key = key THEN [key |-> key, value |-> value]
          ELSE members[k]]
  ELSE Append(members, [key |-> key, value |-> value])

RECURSIVE ParseValue(_, _)
RECURSIVE ParseMembers(_, _, _)
\* the members of an object from s[i] on, after "{" or ","
ParseMembers(s, i, members) ==
  IF i > Len(s) \/ s[i] # Quote THEN Failed
  ELSE LET key == ParseString(s, i)
       IN  IF ~key.ok THEN Failed
           ELSE IF key.next > Len(s) \/ s[key.next] # ":" THEN Failed
           ELSE LET val == ParseValue(s, key.next + 1)
                IN  IF ~val.ok THEN Failed
                    ELSE IF val.next > Len(s) THEN Failed
                    ELSE LET now == SetMember(members, key.value.chars,
                                              val.value)
                         IN  IF s[val.next] = ","
                             THEN ParseMembers(s, val.next + 1, now)
                             ELSE IF s[val.next] = "}"
                             THEN [ok |-> TRUE, next |-> val.next + 1,
                                   value |-> [kind |-> "object",
                                              members |-> now]]
                             ELSE Failed

\* the JSON value that starts at s[i]
ParseValue(s, i) ==
  IF i > Len(s) THEN Failed
  ELSE IF s[i] = "{"
       THEN IF i + 1 <= Len(s) /\ s[i + 1] = "}"
            THEN [ok |-> TRUE, next |-> i + 2,
                  value |-> [kind |-> "object", members |-> <<>>]]
            ELSE ParseMembers(s, i + 1, <<>>)
  ELSE IF s[i] = Quote THEN ParseString(s, i)
  ELSE IF s[i] \in DigitChars THEN ParseNumber(s, i)
  ELSE Failed

\* JSON.parse(text): ok is FALSE when it throws a SyntaxError
JSONparse(text) ==
  LET parsed == ParseValue(text, 1)
  IN  IF parsed.ok /\ parsed.next = Len(text) + 1
      THEN [ok |-> TRUE, value |-> parsed.value]
      ELSE Failed

\* a key that is an array index: 0, or digits that start with no 0
IsIndexKey(key) ==
  /\ Len(key) > 0
  /\ \A k \in 1..Len(key) : key[k] \in DigitChars
  /\ (Len(key) > 1 => key[1] # "0")

DigitValue(c) == IF c = "0" THEN 0 ELSE IF c = "1" THEN 1 ELSE 2

RECURSIVE IndexOfKey(_)
IndexOfKey(key) ==
  IF key = <<>> THEN 0
  ELSE 10 * IndexOfKey(SubSeq(key, 1, Len(key) - 1)) + DigitValue(key[Len(key)])

\* the members in the order in which an object lists its own keys: the
\* array indices in ascending order, then the other keys as created
OwnMembers(members) ==
  LET indices == { k \in 1..Len(members) : IsIndexKey(members[k].key) }
      others  == SelectSeq(members, LAMBDA m : ~IsIndexKey(m.key))
      rank(k) == Cardinality({ j \in indices :
                                 IndexOfKey(members[j].key)
                                   < IndexOfKey(members[k].key) }) + 1
      sorted  == [r \in 1..Cardinality(indices) |->
                    members[CHOOSE k \in indices : rank(k) = r]]
  IN  sorted \o others

\* JSON.stringify(value)
RECURSIVE JSONstringify(_)
RECURSIVE StringifyMembers(_)
StringifyMembers(members) ==
  IF members = <<>> THEN <<>>
  ELSE LET m == Head(members)
           one == <<Quote>> \o m.key \o <<Quote, ":">> \o JSONstringify(m.value)
       IN  IF Len(members) = 1 THEN one
           ELSE one \o <<",">> \o StringifyMembers(Tail(members))

JSONstringify(value) ==
  IF value.kind = "number" THEN value.digits
  ELSE IF value.kind = "string" THEN <<Quote>> \o value.chars \o <<Quote>>
  ELSE <<"{">> \o StringifyMembers(OwnMembers(value.members)) \o <<"}">>

\* localStorage.setItem(key, JSON.stringify(data)) inside try/catch: full is
\* the case in which setItem throws because the quota is exceeded
saveToLocalStorage(item, data, full) ==
  IF full THEN [item |-> item, ok |-> FALSE]
  ELSE [item |-> [text |-> JSONstringify(data)], ok |-> TRUE]

\* importPositions without its try/catch: the SyntaxError leaves the method
importPositionsUncaught(item, jsonString, full) ==
  LET positions == JSONparse(jsonString)
  IN  IF ~positions.ok
      THEN [item |-> item, returned |-> FALSE, thrown |-> TRUE]
      ELSE LET saved == saveToLocalStorage(item, positions.value, full)
           IN  [item |-> saved.item, returned |-> saved.ok, thrown |-> FALSE]

\* importPositions(jsonString) on the stored item
importPositions(item, jsonString, full) ==
  LET positions == JSONparse(jsonString)
  IN  IF ~positions.ok
      THEN [item |-> item, returned |-> FALSE, thrown |-> FALSE]
      ELSE LET saved == saveToLocalStorage(item, positions.value, full)
           IN  [item |-> saved.item, returned |-> saved.ok, thrown |-> FALSE]

\* a position store of n workflows as a JSON value
Num(d) == [kind |-> "number", digits |-> <<d>>]
PositionValue(x, y) ==
  [kind |-> "object",
   members |-> << [key |-> <<"x">>, value |-> Num(x)],
                  [key |-> <<"y">>, value |-> Num(y)] >>]
BackupOf(n) ==
  [kind |-> "object",
   members |-> [k \in 1..n |->
                  [key |-> <<"w">> \o [j \in 1..k |-> "1"],
                   value |-> PositionValue("1", IF k = 1 THEN "0" ELSE "2")]]]

\* the backups as texts, and what is left of one that lost its end or
\* one of its characters
BackupTexts == { JSONstringify(BackupOf(n)) : n \in 0..MaxBackupEntries }
Damaged(text) ==
  { SubSeq(text, 1, n) : n \in 0..Len(text) }
    \cup { SubSeq(text, 1, k - 1) \o SubSeq(text, k + 1, Len(text)) :
             k \in 1..Len(text) }
JsonStrings == UNION { Damaged(text) : text \in BackupTexts }

notStore == <<cv, rt, ws>>

InitImport ==
  /\ cv = NoCanvas /\ rt = NoRoute /\ ws = NoWork
  /\ \E text \in BackupTexts :
       st = [version |-> "localStorage", positions |-> [text |-> text]]
  /\ ld = [jsonString |-> <<>>, returned |-> FALSE, thrown |-> FALSE]
  /\ ev = Ev("init", R(0), R(0))

ImportPositions ==
  /\ \E jsonString \in JsonStrings, full \in BOOLEAN :
       LET done == importPositions(st.positions, jsonString, full)
       IN  /\ st' = [st EXCEPT !.positions = done.item]
           /\ ld' = [jsonString |-> jsonString, returned |-> done.returned,
                     thrown |-> done.thrown]
  /\ ev' = Ev("importPositions", R(0), R(0))
  /\ UNCHANGED notStore

\* clearAllPositions: localStorage.removeItem(POSITIONS_KEY)
ClearAllPositions ==
  /\ st' = [st EXCEPT !.positions = Absent]
  /\ ev' = Ev("clearAllPositions", R(0), R(0))
  /\ UNCHANGED <<cv, rt, ws, ld>>

NextImport == ImportPositions \/ ClearAllPositions

SpecImport == InitImport /\ [][NextImport]_vars

(***************************************************************************)
(* Drags followed by the debounced save (SpecPersist).  The canvas is      *)
(* loaded from an item source with two items; the user presses, moves and  *)
(* releases nodes, MaxPersistSteps times at most, and the callback of the  *)
(* auto-save timer runs once the timer is due unless clearTimeout has      *)
(* removed it before: the user's steps leave it one step to run in.        *)
(***************************************************************************)
MaxPersistSteps == 8

LinkedLists ==
  { server \in ServerLists :
      Cardinality({ i \in 1..Len(server) : server[i].page_id = PAGE_ID }) = 2 }

InitPersist ==
  /\ \E version \in ServiceVersions, server \in LinkedLists :
       LET data == getWorkflowProcessByPageId(InitialStore(version, server),
                                              PAGE_ID)
           built == autoCreateAction1FromJSON(
                      [InitialWork(version) EXCEPT
                         !.workflowData = data,
                         !.lastWorkflowDataHash = HashOf(data),
                         !.loaded = TRUE],
                      InitialStore(version, server))
       IN  /\ ws = [built.ws EXCEPT !.steps = MaxSteps - MaxPersistSteps - 1]
           /\ st = built.st
  /\ cv = NoCanvas
  /\ rt = NoRoute
  /\ ld = NoLoad
  /\ ev = Ev("loadWorkflowDataAndAutoCreate", R(0), R(0))

UserCanStep == ws.steps < MaxSteps - 1

UserPressesNode == UserCanStep /\ OnMouseDown
UserHoldsNode == UserCanStep /\ ClickTimeoutFires
UserMovesPointer == UserCanStep /\ MouseMove
UserReleases == UserCanStep /\ MouseUp

NextPersist ==
  \/ UserPressesNode
  \/ UserHoldsNode
  \/ UserMovesPointer
  \/ UserReleases
  \/ AutoSaveTimerFires

SpecPersist ==
  InitPersist /\ [][NextPersist]_vars /\ WF_vars(AutoSaveTimerFires)

(***************************************************************************)
(* Properties of the workflow canvas (checked under SpecWork).             *)
(***************************************************************************)
\* the handler of a mousemove moves the dragged item in this state
DragMoves(w) ==
  /\ w.draggedItem # NULL
  /\ IF w.version = "localStorage" THEN w.isDragging
     ELSE w.canvasOffset # Absent /\ w.scrollAtDragStart # Absent

\* an arrow of the canvas runs from the node from to the node to
LinkedByEdge(w, from, to) ==
  \E k \in 1..Len(w.arrows) : w.arrows[k].from = from /\ w.arrows[k].to = to

\* C5: while an action2 node is dragged, every pointer move displaces each
\* continue/reject node that an existing edge links to it by exactly the
\* (dx,dy) of the action2 node, with grid snapping as well, and moves no node
\* of the canvas that is not linked to the dragged node.
C5_RigidGroupDrag ==
  [][(/\ ev'.op = "onMouseMove"
      /\ DragMoves(ws)
      /\ ws.heap[ws.draggedItem].type = "action2")
     => LET dragged == ws.draggedItem
            dx == ws'.heap[dragged].position.x - ws.heap[dragged].position.x
            dy == ws'.heap[dragged].position.y - ws.heap[dragged].position.y
        IN  \A node \in RefsOf(ws.items) \ {dragged} :
               IF /\ ws.heap[node].type \in {"continue", "reject"}
                  /\ LinkedByEdge(ws, dragged, node)
               THEN ws'.heap[node].position =
                      Pos(ws.heap[node].position.x + dx,
                          ws.heap[node].position.y + dy)
               ELSE ws'.heap[node].position = ws.heap[node].position]_vars

\* the nodes and the edges of the canvas, as the user sees them
CanvasOf(w) ==
  [nodes |-> [i \in 1..Len(w.items) |->
                [id |-> w.heap[w.items[i]].id,
                 type |-> w.heap[w.items[i]].type,
                 label |-> w.heap[w.items[i]].label,
                 position |-> w.heap[w.items[i]].position,
                 workflowId |-> w.heap[w.items[i]].workflowId]],
   edges |-> { [fromId |-> w.heap[w.arrows[k].from].id,
                toId |-> w.heap[w.arrows[k].to].id,
                dashed |-> w.arrows[k].dashed] : k \in 1..Len(w.arrows) }]

Rebuilt == ev.op \in {"autoCreateAction1FromJSON",
                      "loadWorkflowDataAndAutoCreate"}

\* C7: a rebuild that follows a rebuild, on the same item list and with no
\* user action in between, yields the same node list (ids, types, labels,
\* positions, workflow ids) and the same edge set (from, to, dashed) -- both
\* when autoCreateAction1FromJSON runs again on the list it holds and when the
\* list is fetched again from the unchanged source first.
C7_RebuildIdempotent ==
  (Rebuilt /\ ws.workflowData # <<>>) =>
    LET fetched == getWorkflowProcessByPageId(st, PAGE_ID)
    IN  /\ CanvasOf(autoCreateAction1FromJSON(ws, st).ws) = CanvasOf(ws)
        /\ CanvasOf(autoCreateAction1FromJSON(
                      [ws EXCEPT !.workflowData = fetched], st).ws)
             = CanvasOf(ws)

\* a poll rebuilt a graph of an action2 with its children and an action1,
\* the "localStorage" version having stored their positions
C7_Witness ==
  /\ ev.op = "autoCreateAction1FromJSON"
  /\ Len(ws.items) = 4
  /\ ws.version = "localStorage"
  /\ st.positions["w1"] # Absent /\ st.positions["w2"] # Absent

\* the point of the canvas under the pointer of the last event
CanvasPointOfEvent ==
  Pos(ev.x.n - ScrollRect.left + ws.scroll.x,
      ev.y.n - ScrollRect.top + ws.scroll.y)

\* C9: a node created by dropping a toolbar item (createNewItemFromToolbar)
\* is placed at coordinates that are both multiples of the grid size 20, for
\* every drop point and scroll offset.
C9_ToolbarDropOnGrid ==
  ev.op = "createNewItemFromToolbar" =>
    LET created == ws.heap[ws.items[Len(ws.items)]]
    IN  /\ created.position.x % GridSize = 0
        /\ created.position.y % GridSize = 0
        /\ created.properties.position = created.position

\* a drop on a scrolled canvas at a point that is off the grid in both
\* coordinates, left of the canvas origin
C9_Witness ==
  /\ ev.op = "createNewItemFromToolbar"
  /\ ws.scroll # Pos(0, 0)
  /\ CanvasPointOfEvent.x % GridSize # 0
  /\ CanvasPointOfEvent.y % GridSize # 0
  /\ CanvasPointOfEvent.x < 0

\* C10: after any sequence of rebuilds, toolbar creations, drags and property
\* saves, every edge is dashed if and only if its source node has type action2
\* and its destination node has type continue or reject.
C10_DashedIffBranch ==
  \A k \in 1..Len(ws.arrows) :
     ws.arrows[k].dashed <=>
       /\ ws.heap[ws.arrows[k].from].type = "action2"
       /\ ws.heap[ws.arrows[k].to].type \in {"continue", "reject"}

\* a dashed edge next to a solid edge that leaves an action2
C10_Witness ==
  /\ \E k \in 1..Len(ws.arrows) : ws.arrows[k].dashed
  /\ \E k \in 1..Len(ws.arrows) :
        /\ ~ws.arrows[k].dashed
        /\ ws.heap[ws.arrows[k].from].type = "action2"

\* the arrows of the canvas that end at the node
InboundOf(w, node) == {k \in 1..Len(w.arrows) : w.arrows[k].to = node}

\* the nodes of the given type that an arrow links the node to
ChildrenOf(w, node, type) ==
  {m \in RefsOf(w.items) : w.heap[m].type = type /\ LinkedByEdge(w, node, m)}

\* the node at the given place of items is an action2
IsAction2At(w, i) ==
  i \in 1..Len(w.items) /\ w.heap[w.items[i]].type = "action2"

\* C11: after a rebuild, every continue node and every reject node has
\* exactly one inbound edge, which comes from the action2 node it was created
\* with (the node pushed right before the pair), and each action2 node has
\* exactly one continue child and one reject child.
C11_ChildrenOfAction2 ==
  (Rebuilt /\ ws.workflowData # <<>>) =>
    \A i \in 1..Len(ws.items) :
       LET node == ws.items[i]
           type == ws.heap[node].type
           parentAt == IF type = "continue" THEN i - 1 ELSE i - 2
       IN  /\ type \in {"continue", "reject"} =>
                /\ IsAction2At(ws, parentAt)
                /\ Cardinality(InboundOf(ws, node)) = 1
                /\ \A k \in InboundOf(ws, node) :
                      ws.arrows[k].from = ws.items[parentAt]
           /\ type = "action2" =>
                /\ Cardinality(ChildrenOf(ws, node, "continue")) = 1
                /\ Cardinality(ChildrenOf(ws, node, "reject")) = 1
                /\ ChildrenOf(ws, node, "continue") = {ws.items[i + 1]}
                /\ ChildrenOf(ws, node, "reject") = {ws.items[i + 2]}

\* a poll of the "http" version rebuilt an action2 with its two children,
\* followed by an action1
C11_Witness ==
  /\ ev.op = "autoCreateAction1FromJSON"
  /\ ws.version = "http"
  /\ Len(ws.items) = 4
  /\ IsAction2At(ws, 1)
  /\ ws.heap[ws.items[4]].type = "action1"

\* C14: after any sequence of rebuilds, toolbar drops and clearCanvas, the
\* ids of the nodes in items are pairwise distinct and nextId is strictly
\* greater than every id in items.
C14_NodeIdsUnique ==
  /\ \A i, j \in 1..Len(ws.items) :
        i # j => ws.heap[ws.items[i]].id # ws.heap[ws.items[j]].id
  /\ \A i \in 1..Len(ws.items) : ws.heap[ws.items[i]].id < ws.nextId

\* a toolbar drop added a node to a canvas that holds rebuilt nodes
C14_Witness ==
  /\ ev.op \in {"createNewItemFromToolbar", "createItemAtPosition"}
  /\ Len(ws.items) >= 2
  /\ ws.heap[ws.items[1]].workflowId # ""
  /\ ws.heap[ws.items[Len(ws.items)]].workflowId = ""

\* the places in items of the primary nodes (action1, action2)
PrimariesOf(w) ==
  {i \in 1..Len(w.items) : w.heap[w.items[i]].type \in {"action1", "action2"}}

\* the chain tail of the primary node at place p: the action1 node itself,
\* or the continue child pushed right after the action2 node
ChainTailAt(w, p) ==
  IF w.heap[w.items[p]].type = "action1" THEN w.items[p] ELSE w.items[p + 1]

\* C17: after a rebuild the first primary node has no inbound edge, every
\* later primary node has exactly one inbound edge, whose source is the chain
\* tail of the previous item (the previous action1 node itself, or the
\* continue child of the previous action2, never the action2 itself and never
\* a reject node), and no edge leaves a reject node.
C17_ChainTopology ==
  (Rebuilt /\ ws.workflowData # <<>>) =>
    /\ \A i \in PrimariesOf(ws) :
          LET earlier == {p \in PrimariesOf(ws) : p < i}
              inbound == InboundOf(ws, ws.items[i])
          IN  IF earlier = {} THEN inbound = {}
              ELSE LET tail == ChainTailAt(ws, MaxOf(earlier))
                   IN  /\ Cardinality(inbound) = 1
                       /\ \A k \in inbound : ws.arrows[k].from = tail
                       /\ ws.heap[tail].type \in {"action1", "continue"}
    /\ \A k \in 1..Len(ws.arrows) :
          ws.heap[ws.arrows[k].from].type # "reject"

\* the load rebuilt an action2 followed by an action1, whose inbound edge
\* comes from the continue node
C17_Witness ==
  /\ ev.op = "loadWorkflowDataAndAutoCreate"
  /\ Len(ws.items) = 4
  /\ IsAction2At(ws, 1)
  /\ \E k \in 1..Len(ws.arrows) :
        /\ ws.arrows[k].to = ws.items[4]
        /\ ws.heap[ws.arrows[k].from].type = "continue"

\* the primary nodes of the canvas, in items order
PrimaryNodesOf(w) ==
  LET IsPrimary(ref) == w.heap[ref].type \in {"action1", "action2"}
  IN  SelectSeq(w.items, IsPrimary)

\* C18: after a rebuild from a non-empty list of n items of which k carry a
\* non-empty return value, the canvas holds exactly n + 2k nodes -- one
\* primary node per item, in sequence order (action2 iff the return value is
\* non-empty, else action1), plus one continue and one reject per action2 --
\* and n - 1 + 2k edges, whatever nodes and edges existed before.
C18_WholesaleRebuild ==
  (Rebuilt /\ ws.workflowData # <<>>) =>
    LET sortedData == sortBySequence(ws.workflowData)
        n == Len(sortedData)
        k == Cardinality({i \in 1..n :
                            sortedData[i].return_input_property_value # ""})
        primaries == PrimaryNodesOf(ws)
        Count(type) ==
          Cardinality({i \in 1..Len(ws.items) :
                         ws.heap[ws.items[i]].type = type})
    IN  /\ Len(ws.items) = n + 2 * k
        /\ Len(ws.arrows) = n - 1 + 2 * k
        /\ Len(primaries) = n
        /\ \A i \in 1..n :
              /\ ws.heap[primaries[i]].workflowId = sortedData[i].id
              /\ ws.heap[primaries[i]].type =
                    IF sortedData[i].return_input_property_value # ""
                    THEN "action2" ELSE "action1"
        /\ Count("continue") = k
        /\ Count("reject") = k

\* a rebuild replaced a canvas that held a node created from the toolbar: the
\* node object still exists but is no longer on the canvas
C18_Witness ==
  /\ Rebuilt /\ ws.workflowData # <<>>
  /\ \E ref \in 1..Len(ws.heap) :
        /\ ref \notin RefsOf(ws.items)
        /\ ws.heap[ref].label \in ToolbarLabels
        /\ ws.heap[ref].workflowId = ""
  /\ \E i \in 1..Len(ws.items) : ws.heap[ws.items[i]].type = "action2"

\* the handlers that end a gesture, and the pointer moves
PointerUpOps ==
  {"onMouseUp", "onMouseLeave", "createNewItemFromToolbar",
   "createItemAtPosition"}

PointerMoveOps == {"onMouseMove", "onToolbarDragMove"}

\* C25: after a pointer-up (or a pointer-leave on the generic canvas) no
\* panning, object-dragging or toolbar-dragging flag is set, the dragged or
\* selected object reference is cleared, the list of linked children is
\* empty and the toolbar preview is gone; a pointer move that follows
\* changes no node or shape and not the viewport offset.
C25_PointerUpIdle ==
  [][/\ ev'.op \in PointerUpOps =>
          /\ cv'.component # "none" =>
                /\ ~cv'.isPanning /\ ~cv'.isDraggingObject
                /\ cv'.selectedObject = NULL
          /\ ws'.version # "none" =>
                /\ ~ws'.isDragging /\ ~ws'.toolbarDragActive
                /\ ws'.draggedItem = NULL
                /\ ws'.linkedButtons = <<>>
                /\ ws'.dragPreview = Absent
     /\ (ev.op \in PointerUpOps /\ ev'.op \in PointerMoveOps) =>
          /\ cv'.component # "none" =>
                /\ cv'.objects = cv.objects
                /\ cv'.offsetX = cv.offsetX /\ cv'.offsetY = cv.offsetY
          /\ ws'.version # "none" => ws'.heap = ws.heap]_vars

\* the pointer at page position (x, y) is over the canvas element
OverCanvas(w, x, y) ==
  LET left == ScrollRect.left - w.scroll.x
      top == ScrollRect.top - w.scroll.y
  IN  /\ x >= left /\ x <= left + canvasWidth
      /\ y >= top /\ y <= top + canvasHeight

\* C27: when a toolbar drag is released a node is created if and only if
\* the pointer is over the canvas; the new node then has exactly one inbound
\* edge, from the previous chain tail, when there was one and none
\* otherwise, and the chain tail becomes the new node (its continue child
\* when the drop created one).
C27_ToolbarDrop ==
  [][(ws.toolbarDragActive /\ ev'.op \in PointerUpOps) =>
       LET created == Len(ws'.items) > Len(ws.items)
           new == ws'.items[Len(ws.items) + 1]
           inbound == InboundOf(ws', new)
       IN  /\ created <=> OverCanvas(ws, ev'.x.n, ev'.y.n)
           /\ created =>
                /\ IF ws.lastCreatedItem = NULL THEN inbound = {}
                   ELSE /\ Cardinality(inbound) = 1
                        /\ \A k \in inbound :
                              ws'.arrows[k].from = ws.lastCreatedItem
                /\ ws'.lastCreatedItem =
                     IF Len(ws'.items) = Len(ws.items) + 3 THEN new + 1
                     ELSE new]_vars

\* the events of a poll
PollOps == {"autoCreateAction1FromJSON", "checkForWorkflowChanges"}

C29_CorrectedStateSaved ==
  [][ev'.op = "getCanvasState" =>
       IF ld'.returned # ld'.read
       THEN ld'.saved /\ st'.canvasState = ld'.returned
       ELSE ~ld'.saved /\ st' = st]_vars

\* C38: auto-fix of a persisted canvas state is idempotent: when
\* getCanvasState is called again and reads the state that the call before
\* it returned (and re-saved), it returns the same items and the same edges
\* as that call and does not write the state again.
C38_AutoFixIdempotent ==
  [][(/\ ev.op = "getCanvasState" /\ ev'.op = "getCanvasState"
      /\ ld.returned # Absent /\ ld'.read = ld.returned)
       => /\ ld'.returned.items = ld.returned.items
          /\ ld'.returned.arrows = ld.returned.arrows
          /\ ~ld'.saved]_vars

(***************************************************************************)
(* Properties of a drag gesture (checked under SpecDrag).                  *)
(***************************************************************************)
\* C19: with the item list at the source unchanged, the poll that follows a
\* completed drag and its debounced position write compares equal to the
\* last seen content and does not rebuild the graph from the list, so the
\* nodes stay where the user left them.
C19_DragsDoNotRebuild ==
  [][(ev.op = "autoSaveTimer" /\ ev'.op = "autoCreateAction1FromJSON")
       => ws'.workflowData = <<>>]_vars

\* C22: the debounced save fires only for a node that has an external-record
\* linkage: whenever the callback of the pending position-save timer runs,
\* the node it was scheduled for has a workflowId.
C22_DebouncedSave ==
  [][ev'.op = "autoSaveTimer"
       => ws.heap[ws.autoSaveTimer.item].workflowId # ""]_vars

\* C26: the property panel is opened only by a press during which no
\* movement was detected (by its click timer in the http version, by the
\* press that finds the timer pending in the localStorage version); a
\* pointer move that moves a node leaves no click timer pending, and a click
\* timer that expires while the node is dragged does not open the panel.
C26_ClickVersusDrag ==
  [][/\ (ws'.propertyPanelOpen /\ ~ws.propertyPanelOpen) =>
          \/ ev'.op = "clickTimeout" /\ ~ws.isDragging
          \/ ev'.op = "onMouseDown" /\ ws.clickTimeout # Absent
     /\ (ev'.op = "onMouseMove" /\ ws'.heap # ws.heap) =>
          ws'.clickTimeout = Absent
     /\ (ev'.op = "clickTimeout" /\ ws.isDragging) =>
          (ws'.propertyPanelOpen => ws.propertyPanelOpen)]_vars

(***************************************************************************)
(* Properties of the placement of rebuilt nodes (checked under SpecPlace). *)
(***************************************************************************)
\* the items of the fetched list the primary node was built from
ItemsOfNode(w, node) ==
  {k \in 1..Len(w.workflowData) : w.workflowData[k].id = node.workflowId}

\* C20: right after a rebuild, every primary node whose item of the fetched
\* list carries a valid position other than (0,0) lies at exactly that
\* position (the index-based fallback is used only when there is no such
\* position), and where there is a position store it holds the position
\* used under the item's id.
C20_PositionPriority ==
  (Rebuilt /\ ws.workflowData # <<>>) =>
    \A i \in PrimariesOf(ws) :
       LET node == ws.heap[ws.items[i]]
       IN  \A k \in ItemsOfNode(ws, node) :
              LET persisted == ws.workflowData[k].position
              IN  /\ (isValidPosition(persisted) /\ persisted # Pos(0, 0))
                        => node.position = persisted
                  /\ ws.version = "localStorage"
                        => st.positions[node.workflowId] = node.position

(***************************************************************************)
(* Properties of the order of rebuilt nodes (checked under SpecOrder).     *)
(***************************************************************************)
\* the place in the fetched list of the item a primary node was built from
PlaceOfNode(w, node) == CHOOSE k \in ItemsOfNode(w, node) : TRUE

\* the order of item ids
IdRank(id) == IF id = "w1" THEN 1 ELSE 2

\* C21: right after a rebuild the primary nodes were created in ascending
\* order of their items' sequence, two items without a sequence in ascending
\* order of their ids, and items with equal keys in the order of the fetched
\* list.
C21_RebuildOrdering ==
  (Rebuilt /\ ws.workflowData # <<>>) =>
    \A i \in PrimariesOf(ws), j \in PrimariesOf(ws) :
       i < j =>
         LET ka == PlaceOfNode(ws, ws.heap[ws.items[i]])
             kb == PlaceOfNode(ws, ws.heap[ws.items[j]])
             a == ws.workflowData[ka]
             b == ws.workflowData[kb]
         IN  /\ (a.sequence # 0 /\ b.sequence # 0) =>
                  \/ a.sequence < b.sequence
                  \/ a.sequence = b.sequence /\ ka < kb
             /\ (a.sequence = 0 /\ b.sequence = 0) =>
                  IdRank(a.id) < IdRank(b.id)

(***************************************************************************)
(* Properties of the teardown (checked under SpecTeardown).                *)
(***************************************************************************)
\* C23: once ngOnDestroy has run, no debounced save fires, no response of a
\* poll rebuilds the graph, and nothing the component does writes to the
\* store (the saved canvas state, the position store, the item source).
C23_Teardown ==
  [][(~ws.polling /\ ev'.op # "serverEdit") =>
       /\ ev'.op # "autoSaveTimer"
       /\ ev'.op = "autoCreateAction1FromJSON" => ws'.workflowData = <<>>
       /\ st' = st]_vars

(***************************************************************************)
(* Properties of concurrent saves (checked under SpecSave).                *)
(***************************************************************************)
\* C24: when every saveCanvasState call that was issued has finished, the
\* backing store holds the state of the call issued last.
C24_LastWriteWins ==
  (ld.calls # <<>>
     /\ \A i \in 1..Len(ld.calls) : ld.calls[i].waitsFor = "nothing")
    => st.canvasState = RecordOf(st.version, ld.calls[Len(ld.calls)].state)


(***************************************************************************)
(* Properties of the import of a backup (checked under SpecImport).        *)
(***************************************************************************)
\* C30: importPositions called with a string that JSON.parse rejects returns
\* false and leaves the stored positions exactly as they were, and no
\* exception leaves the call.
C30_MalformedImport ==
  [][(ev'.op = "importPositions" /\ ~JSONparse(ld'.jsonString).ok)
       => /\ ~ld'.returned
          /\ ~ld'.thrown
          /\ st' = st]_vars

\* an import of a damaged backup has been refused while positions are stored
C30_Witness ==
  /\ ev.op = "importPositions"
  /\ ld.jsonString # <<>>
  /\ ~JSONparse(ld.jsonString).ok
  /\ ~ld.returned
  /\ st.positions # Absent
  /\ st.positions.text # <<"{", "}">>

(***************************************************************************)
(* Properties of the edges of the workflow canvas (checked under SpecWork).*)
(***************************************************************************)
\* the route between the current positions of the endpoints of an arrow
RouteOf(w, arrow) ==
  calculateArrowPath(w.heap[arrow.from].position, w.heap[arrow.to].position)

\* C31: after every handler (drag move, property save, rebuild, toolbar
\* drop, clear) the path stored with each arrow is the route computed from
\* the current positions of the two nodes it joins.
C31_PathsUpToDate ==
  ws.version # "none" =>
    \A k \in 1..Len(ws.arrows) : ws.arrows[k].path = RouteOf(ws, ws.arrows[k])

\* a drag has just moved a node that an arrow joins to another node
C31_Witness ==
  /\ ev.op = "onMouseMove"
  /\ ws.version # "none"
  /\ ws.draggedItem # NULL
  /\ \E k \in 1..Len(ws.arrows) :
       /\ ws.draggedItem \in {ws.arrows[k].from, ws.arrows[k].to}
       /\ ws.draggedItem \in RefsOf(ws.items)
       /\ ws.heap[ws.draggedItem].workflowId # ""
       /\ ws.heap[ws.draggedItem].position.x # AUTO_CREATE_START_X
       /\ ws.arrows[k].path = RouteOf(ws, ws.arrows[k])

(***************************************************************************)
(* Properties of the debounced save (checked under SpecPersist).           *)
(***************************************************************************)
NodeRefs == 1..MaxObjects

\* a save of the position of the node n is scheduled, and n has a workflowId
SavePending(n) ==
  /\ ws.autoSaveTimer # Absent
  /\ ws.autoSaveTimer.item = n
  /\ n <= Len(ws.heap)
  /\ ws.heap[n].workflowId # ""

\* the position the store holds for a workflow id: the position store of
\* the localStorage version, the item source of the http version
StoredPositionOf(store, workflowId) ==
  IF store.version = "localStorage" THEN store.positions[workflowId]
  ELSE LET held == SelectSeq(store.server, LAMBDA i : i.id = workflowId)
       IN  IF held = <<>> THEN Absent ELSE held[1].position

\* the store holds the position that the node n has now
PositionWritten(n) ==
  /\ n <= Len(ws.heap)
  /\ ws.heap[n].workflowId # ""
  /\ StoredPositionOf(st, ws.heap[n].workflowId) = ws.heap[n].position

\* C34: once the release of a dragged node with a workflowId has scheduled
\* the save of its position, the position of that node is eventually written
\* to the store, whatever node is dragged and released next.
C34_DraggedPositionPersisted ==
  \A n \in NodeRefs : SavePending(n) ~> PositionWritten(n)

\* C37: after any sequence of rebuilds, toolbar drops, drags, property saves
\* and clearCanvas, both ends of every arrow are nodes of the items list,
\* and lastCreatedItem is null or a node of the items list.
C37_GraphReferences ==
  ws.version # "none" =>
    /\ \A k \in 1..Len(ws.arrows) :
         /\ ws.arrows[k].from \in RefsOf(ws.items)
         /\ ws.arrows[k].to \in RefsOf(ws.items)
    /\ (ws.lastCreatedItem = NULL \/ ws.lastCreatedItem \in RefsOf(ws.items))

\* a node dropped from the toolbar onto a loaded canvas and chained to the
\* node that was lastCreatedItem before
C37_Witness ==
  /\ ws.version # "none"
  /\ ev.op \in {"createItemAtPosition", "createNewItemFromToolbar"}
  /\ ws.items # <<>>
  /\ ws.lastCreatedItem = ws.items[Len(ws.items)]
  /\ ws.heap[ws.lastCreatedItem].workflowId = ""
  /\ ws.heap[ws.lastCreatedItem].type = "action1"
  /\ \E k \in 1..Len(ws.arrows) : ws.arrows[k].to = ws.lastCreatedItem

(***************************************************************************)
(* Properties of a drag across a rebuild (checked under SpecDrag).         *)
(***************************************************************************)
\* C35: while a drag is in progress the dragged node and each of its linked
\* children are nodes of the current items list, also after a rebuild that
\* a poll triggered between the press and the release.
C35_DraggedNodeOnCanvas ==
  (ws.version # "none" /\ ws.draggedItem # NULL) =>
    /\ ws.draggedItem \in RefsOf(ws.items)
    /\ \A k \in 1..Len(ws.linkedButtons) :
         ws.linkedButtons[k] \in RefsOf(ws.items)

=============================================================================
